---- MODULE Spec2Model ----
(***************************************************************************)
(* VNStock-Data: the rate-limit-aware download loop of                     *)
(* download_vn_stocks.py (download_symbol_data, download_all_symbols) and  *)
(* of download_vn30.py (download_vn30_data, the same loop for one symbol). *)
(*                                                                         *)
(* Strings are sequences of characters.  A character is a one-character    *)
(* TLA+ string; a non-ASCII character is written by its code point         *)
(* ("U+00E2" is the a-circumflex of "giay"), and is still one character.   *)
(* Time is counted in whole seconds.                                       *)
(***************************************************************************)
EXTENDS Integers, Sequences, FiniteSets, TLC

(***************************************************************************)
(* String primitives of Python used by the scripts.                        *)
(***************************************************************************)
UPPER ==
  <<"A","B","C","D","E","F","G","H","I","J","K","L","M","N","O","P","Q","R","S","T","U","V",
    "W","X","Y","Z","U+00C1","U+00C2","U+1EC0","U+0110">>
LOWER ==
  <<"a","b","c","d","e","f","g","h","i","j","k","l","m","n","o","p","q","r","s","t","u","v",
    "w","x","y","z","U+00E1","U+00E2","U+1EC1","U+0111">>
DIGITS ==
  <<"0","1","2","3","4","5","6","7","8","9">>

\* str.lower() on one character
LowerChar(c) ==
  IF \E i \in 1..Len(UPPER) : UPPER[i] = c
  THEN LOWER[CHOOSE i \in 1..Len(UPPER) : UPPER[i] = c]
  ELSE c

\* str.lower()
lower(s) ==
  [i \in 1..Len(s) |-> LowerChar(s[i])]

\* s[i:i+len(lit)] == lit  (i is 1-based)
StartsAt(s, i, lit) ==
  /\ i >= 1
  /\ i + Len(lit) - 1 <= Len(s)
  /\ \A k \in 1..Len(lit) : s[i + k - 1] = lit[k]

\* lit in s
Contains(s, lit) ==
  \E i \in 1..(Len(s) + 1) : StartsAt(s, i, lit)

\* s[:n]
Prefix(s, n) ==
  IF Len(s) <= n THEN s ELSE SubSeq(s, 1, n)

\* the regex classes \s and \d
SpaceChars ==
  {" ", "\t", "\n", "\r", "\f"}
DigitChars ==
  {DIGITS[i] : i \in 1..Len(DIGITS)}

\* where the longest run of characters of class cls starting at i ends (exclusive)
RunEnd(s, i, cls) ==
  CHOOSE j \in i..(Len(s) + 1) :
    /\ \A k \in i..(j - 1) : s[k] \in cls
    /\ j = Len(s) + 1 \/ s[j] \notin cls

DigitVal(c) ==
  (CHOOSE i \in 1..Len(DIGITS) : DIGITS[i] = c) - 1

\* int(ds) for a string of decimal digits
RECURSIVE int(_)
int(ds) ==
  IF ds = <<>> THEN 0
  ELSE int(SubSeq(ds, 1, Len(ds) - 1)) * 10 + DigitVal(ds[Len(ds)])

\* str(n) for n >= 0
RECURSIVE str(_)
str(n) ==
  IF n < 10 THEN <<DIGITS[n + 1]>>
  ELSE str(n \div 10) \o <<DIGITS[(n % 10) + 1]>>

\* Python's None, and a value that is not None
None ==
  <<>>
Some(v) ==
  <<v>>

(***************************************************************************)
(* Backoff policy: throttling phrases and the numeric wait hint.           *)
(***************************************************************************)
PHRASE_rate_limit ==
  <<"r","a","t","e"," ","l","i","m","i","t">>
PHRASE_qua_nhieu_request ==
  <<"q","u","U+00E1"," ","n","h","i","U+1EC1","u"," ","r","e","q","u","e","s","t">>
PHRASE_too_many_request ==
  <<"t","o","o"," ","m","a","n","y"," ","r","e","q","u","e","s","t">>
PHRASE_process_terminated ==
  <<"p","r","o","c","e","s","s"," ","t","e","r","m","i","n","a","t","e","d">>
LIT_sau ==
  <<"s","a","u">>
LIT_giay ==
  <<"g","i","U+00E2","y">>
LIT_after ==
  <<"a","f","t","e","r">>
LIT_seconds ==
  <<"s","e","c","o","n","d","s">>

\* a variant of the list that tries the English patterns first
patterns_english_first ==
  << [pre |-> LIT_after, suf |-> LIT_seconds],
     [pre |-> <<>>,      suf |-> LIT_seconds],
     [pre |-> LIT_sau,   suf |-> LIT_giay],
     [pre |-> <<>>,      suf |-> LIT_giay] >>

\* the four regular expressions of extract_wait_time, in the order they are tried:
\* pre \s+ (\d+) \s+ suf, and (\d+) \s+ suf where pre is empty
patterns ==
  << [pre |-> LIT_sau,   suf |-> LIT_giay],
     [pre |-> LIT_after, suf |-> LIT_seconds],
     [pre |-> <<>>,      suf |-> LIT_giay],
     [pre |-> <<>>,      suf |-> LIT_seconds] >>

\* the span <<first, last>> of group 1 when pattern pat matches ls at position i,
\* None when it does not.  \s+ and \d+ are greedy; the classes are disjoint from
\* what follows them, so backtracking finds no other match.
MatchAt(ls, i, pat) ==
  LET a == i + Len(pat.pre)
      b == IF pat.pre = <<>> THEN a ELSE RunEnd(ls, a, SpaceChars)
      c == RunEnd(ls, b, DigitChars)
      d == RunEnd(ls, c, SpaceChars)
  IN  IF /\ StartsAt(ls, i, lower(pat.pre))
         /\ a <= Len(ls) + 1
         /\ pat.pre = <<>> \/ b > a
         /\ c > b
         /\ d > c
         /\ StartsAt(ls, d, lower(pat.suf))
      THEN <<b, c - 1>>
      ELSE None

\* re.search(pattern, error_msg, re.IGNORECASE): group 1 of the leftmost match
re_search(pat, error_msg) ==
  LET ls   == lower(error_msg)
      hits == {i \in 1..Len(ls) : MatchAt(ls, i, pat) # None}
  IN  IF hits = {} THEN None
      ELSE LET i == CHOOSE h \in hits : \A g \in hits : h <= g
               m == MatchAt(ls, i, pat)
           IN  Some(SubSeq(error_msg, m[1], m[2]))

RECURSIVE FirstMatch(_, _)
FirstMatch(k, error_msg) ==
  IF k > Len(patterns) THEN None
  ELSE LET match == re_search(patterns[k], error_msg)
       IN  IF match # None THEN Some(int(match[1]))
           ELSE FirstMatch(k + 1, error_msg)

\* extract_wait_time(error_msg): Some(seconds) or None
extract_wait_time(error_msg) ==
  FirstMatch(1, error_msg)

\* a variant of the test that looks for 'request' where the code looks for
\* 'too many request'
is_rate_limit_loose(error_msg) ==
  \/ Contains(lower(error_msg), PHRASE_rate_limit)
  \/ Contains(lower(error_msg), PHRASE_qua_nhieu_request)
  \/ Contains(lower(error_msg), SubSeq(PHRASE_too_many_request, 10, 16))
  \/ Contains(lower(error_msg), PHRASE_process_terminated)

\* the is_rate_limit test of download_symbol_data and of download_all_symbols
is_rate_limit(error_msg) ==
  \/ Contains(lower(error_msg), PHRASE_rate_limit)
  \/ Contains(lower(error_msg), PHRASE_qua_nhieu_request)
  \/ Contains(lower(error_msg), PHRASE_too_many_request)
  \/ Contains(lower(error_msg), PHRASE_process_terminated)

(***************************************************************************)
(* Program constants and the bounds of the model.                          *)
(***************************************************************************)
\* module-level min_request_interval = 2.0
min_request_interval ==
  2
\* download_symbol_data(..., max_retries: int = 5)
max_retries ==
  5
\* download_all_symbols(..., sleep: float = 2.0)
sleep ==
  2

\* size of the symbol universe returned by get_all_symbols()
NumSymbols ==
  2
\* the largest --workers (max_workers of the ThreadPoolExecutor) that is run
NumWorkers ==
  2
\* how many times the script is run against the same output directory
MaxRuns ==
  2
\* rows each listing table of download_active_stocks.py holds at most
NumRows ==
  2
\* a countdown longer than TimerCap seconds is followed for TimerCap seconds only:
\* no test in the program compares a duration with more than min_request_interval
TimerCap ==
  1

\* get_all_symbols(): the sorted list of symbols
symbols ==
  [i \in 1..NumSymbols |-> i]
Symbols ==
  {symbols[i] : i \in 1..Len(symbols)}
\* symbol = "VN30" of download_vn30_data
VN30 ==
  0
\* the stems a file of the output directory can have
Stems ==
  Symbols \cup {VN30}

\* the main thread of a script and the threads of the pool
Driver ==
  0
Workers ==
  1..NumWorkers
Threads ==
  {Driver} \cup Workers

\* row counts of the tables the quote source may return (df, len(df) > 0)
RowChoices ==
  {100}

Min(a, b) ==
  IF a <= b THEN a ELSE b

\* the largest elapsed time any comparison of the program distinguishes
ClockCap ==
  IF sleep > min_request_interval THEN sleep ELSE min_request_interval

RECURSIVE Pow2(_)
Pow2(n) ==
  IF n = 0 THEN 1 ELSE 2 * Pow2(n - 1)

(***************************************************************************)
(* Messages of the result tuples (symbol, success, message, row_count).    *)
(***************************************************************************)
MSG_no_data ==
  <<"K","h","U+00F4","n","g"," ","c","U+00F3"," ","d","U+1EEF"," ","l","i","U+1EC7","u">>
MSG_ok ==
  <<"O","K",":"," ">>
MSG_arrow ==
  <<" ","-",">"," ">>
MSG_hint_a ==
  <<"R","a","t","e"," ","l","i","m","i","t"," ","(","U+0111","U+00E3"," ","r","e","t","r",
    "y"," ">>
MSG_hint_b ==
  <<"x",")",":"," ","c","h","U+1EDD"," ">>
MSG_hint_c ==
  <<"s">>
MSG_exp_a ==
  <<"R","a","t","e"," ","l","i","m","i","t"," ","(","r","e","t","r","i","e","d"," ">>
MSG_exp_b ==
  <<"x",")",":"," ">>
MSG_failed_a ==
  <<"F","a","i","l","e","d"," ","a","f","t","e","r"," ">>
MSG_failed_b ==
  <<" ","a","t","t","e","m","p","t","s">>
MSG_unbound ==
  <<"c","a","n","n","o","t"," ","a","c","c","e","s","s"," ","l","o","c","a","l"," ","v","a",
    "r","i","a","b","l","e"," ","'","l","a","s","t","_","r","e","q","u","e","s","t","_","t",
    "i","m","e","'"," ","w","h","e","r","e"," ","i","t"," ","i","s"," ","n","o","t"," ","a",
    "s","s","o","c","i","a","t","e","d"," ","w","i","t","h"," ","a"," ","v","a","l","u",
    "e">>
ELLIPSIS ==
  <<".",".",".">>

(***************************************************************************)
(* Error texts the quote source raises.                                    *)
(***************************************************************************)
TXT_retry_later ==
  <<"V","u","i"," ","l","U+00F2","n","g"," ","t","h","U+1EED"," ","l","U+1EA1","i"," ","s",
    "a","u"," ","1","0"," ","g","i","U+00E2","y">>
TXT_too_many_vi ==
  <<"B","U+1EA1","n"," ","U+0111","U+00E3"," ","g","U+1EED","i"," ","q","u","U+00E1"," ",
    "n","h","i","U+1EC1","u"," ","r","e","q","u","e","s","t"," ","t","U+1EDB","i"," ","V",
    "C","I","."," ","V","u","i"," ","l","U+00F2","n","g"," ","t","h","U+1EED"," ","l",
    "U+1EA1","i"," ","s","a","u"," ","1","0"," ","g","i","U+00E2","y",".">>
TXT_rate_limit ==
  <<"R","a","t","e"," ","l","i","m","i","t"," ","e","x","c","e","e","d","e","d">>
TXT_invalid_symbol ==
  <<"i","n","v","a","l","i","d"," ","s","y","m","b","o","l">>
TXT_after_10 ==
  <<"T","o","o"," ","M","a","n","y"," ","R","e","q","u","e","s","t","s",","," ","r","e","t",
    "r","y"," ","a","f","t","e","r"," ","1","0"," ","s","e","c","o","n","d","s">>
TXT_two_hints ==
  <<"r","a","t","e"," ","l","i","m","i","t",":"," ","3","0"," ","g","i","U+00E2","y",",",
    " ","o","r"," ","a","f","t","e","r"," ","1","0"," ","s","e","c","o","n","d","s",";"," ",
    "t","h","U+1EED"," ","l","U+1EA1","i"," ","s","a","u"," ","7"," ","g","i","U+00E2","y">>
TXT_bare_after_10 ==
  <<"t","r","y"," ","a","g","a","i","n"," ","a","f","t","e","r"," ","1","0"," ","s","e","c",
    "o","n","d","s">>
TXT_connection ==
  <<"H","T","T","P","S","C","o","n","n","e","c","t","i","o","n","P","o","o","l","(","h","o",
    "s","t","=","'","t","r","a","d","i","n","g",".","v","i","e","t","c","a","p",".","c","o",
    "m",".","v","n","'",","," ","p","o","r","t","=","4","4","3",")",":"," ","M","a","x"," ",
    "r","e","t","r","i","e","s"," ","e","x","c","e","e","d","e","d"," ","w","i","t","h"," ",
    "u","r","l",":"," ","/","a","p","i","/","c","h","a","r","t","/","O","H","L","C","C","h",
    "a","r","t","/","g","a","p">>
TXT_terminated ==
  <<"P","r","o","c","e","s","s"," ","t","e","r","m","i","n","a","t","e","d",":"," ","q","u",
    "o","t","a"," ","e","x","c","e","e","d","e","d"," ","f","o","r"," ","t","h","i","s"," ",
    "s","e","s","s","i","o","n",","," ","t","h","e"," ","p","r","o","v","i","d","e","r"," ",
    "d","i","d"," ","n","o","t"," ","s","a","y"," ","w","h","e","n"," ","t","o"," ","c","o",
    "m","e"," ","b","a","c","k",";"," ","c","o","n","t","a","c","t"," ","s","u","p","p","o",
    "r","t">>

\* the texts quote.history() raises in a batch
ErrTexts ==
  {TXT_retry_later, TXT_too_many_vi, TXT_rate_limit, TXT_connection}

\* the texts quote.history() raises in a run of download_vn30.py
AllErrTexts ==
  ErrTexts \cup {TXT_invalid_symbol, TXT_after_10, TXT_two_hints, TXT_bare_after_10,
                 TXT_terminated}

\* every text the policy is applied to
KnownTexts ==
  AllErrTexts \cup {MSG_unbound}

\* is_rate_limit and extract_wait_time of every known text, computed once
Classified ==
  [e \in KnownTexts |-> [rate_limit |-> is_rate_limit(e), hint |-> extract_wait_time(e)]]

\* return (symbol, True, f"OK: {first_date} -> {last_date}", row_count); the table
\* carries a default index 0..n-1
OkResult(symbol, n) ==
  <<symbol, TRUE, MSG_ok \o str(0) \o MSG_arrow \o str(n - 1), n>>

\* return (symbol, False, "Không có dữ liệu", 0)
NoDataResult(symbol) ==
  <<symbol, FALSE, MSG_no_data, 0>>

\* a variant of the wait without the 5-second buffer
BackoffWaitNoBuffer(error_text, att) ==
  IF Classified[error_text].hint # None
  THEN Classified[error_text].hint[1]
  ELSE Pow2(att) * 15

\* a variant of the wait that grows linearly when no hint is stated
BackoffWaitLinear(error_text, att) ==
  IF Classified[error_text].hint # None
  THEN Classified[error_text].hint[1] + 5
  ELSE (att + 1) * 15

\* the wait of the except branch at zero-based attempt: the stated hint plus 5, or
\* (2 ** attempt) * 15
BackoffWait(error_text, att) ==
  IF Classified[error_text].hint # None
  THEN Classified[error_text].hint[1] + 5
  ELSE Pow2(att) * 15

\* a variant of the test that gives up one attempt early
RetriesLeftShort(att) ==
  att < max_retries - 2

\* a variant of the test that waits after the last attempt as well
RetriesLeftAlways(att) ==
  att < max_retries

\* attempt < max_retries - 1
RetriesLeft(att) ==
  att < max_retries - 1

\* a variant that reports the error text in both branches
ExhaustedResultTextOnly(symbol, error_text, att) ==
  <<symbol, FALSE,
    MSG_exp_a \o str(max_retries) \o MSG_exp_b \o Prefix(error_text, 80), 0>>

\* return (symbol, False, f"Rate limit (...)", 0) of the last attempt
ExhaustedResult(symbol, error_text, att) ==
  IF Classified[error_text].hint # None
  THEN <<symbol, FALSE,
         MSG_hint_a \o str(max_retries) \o MSG_hint_b
           \o str(BackoffWait(error_text, att)) \o MSG_hint_c, 0>>
  ELSE <<symbol, FALSE,
         MSG_exp_a \o str(max_retries) \o MSG_exp_b \o Prefix(error_text, 80), 0>>

\* a variant of the else branch that returns the text whatever its length
OtherMessageWhole(error_text) ==
  error_text

\* the else branch: error_msg[:100] + "..." when longer than 100
OtherMessage(error_text) ==
  IF Len(error_text) > 100 THEN Prefix(error_text, 100) \o ELLIPSIS ELSE error_text

OtherResult(symbol, error_text) ==
  <<symbol, FALSE, OtherMessage(error_text), 0>>

\* return (symbol, False, f"Failed after {max_retries} attempts", 0)
FellThroughResult(symbol) ==
  <<symbol, FALSE, MSG_failed_a \o str(max_retries) \o MSG_failed_b, 0>>

(***************************************************************************)
(* State.                                                                  *)
(***************************************************************************)
VARIABLES
  parquet,                  \* output directory: symbol -> rows of <symbol>.parquet, 0 = no file
  manifest_csv,             \* manifest.csv: None, or Some(rows)
  failed_csv,               \* failed.csv: None, or Some(symbols)
  script,                   \* the script that runs: "download_vn_stocks" or "download_vn30"
  max_workers,              \* --workers
  run,                      \* which run of the script this is
  prev_success,             \* symbols an earlier run recorded as a success
  prev_tried,               \* symbols an earlier run submitted to the pool
  exit_code,                \* None while the process runs, Some(code) once it has exited
  elapsed,                  \* time.time() - last_request_time (module global), up to ClockCap
  since_grant,              \* seconds since the gate last stamped, None before the first stamp
  grant_gap,                \* seconds between the last two stamps of the gate, None before
  rate_limit_lock,          \* the thread holding rate_limit_lock, or Free
  pc,                       \* where each thread is
  task,                     \* the symbol a thread works on, NoTask when none
  attempt,                  \* the loop variable of download_symbol_data
  timer,                    \* seconds left of the time.sleep a thread is in
  nwaits,                   \* calls of wait_with_countdown in this invocation
  wait_time,                \* the local wait_time: the wait last computed, None before
  calls,                    \* calls of quote.history() in this invocation
  exc,                      \* str(e) of the exception the last failed attempt caught
  df,                       \* what the last call of quote.history() returned: Some(rows),
                            \* Some(0) for None or an empty table, None when it raised
  result,                   \* the tuple a thread is returning from download_symbol_data
  queue,                    \* work items submitted to the pool and not yet started
  future,                   \* symbol -> None while pending, Some(result) when done
  fetches,                  \* quote.history() calls per symbol in this run
  symbols_to_download,
  yielded,                  \* futures as_completed has handed to the driver
  results,
  success_count,
  fail_count,
  total_rows,
  local_last_request_time,  \* download_all_symbols assigns last_request_time without
                            \* declaring it global: a local, None while unbound,
                            \* Some(seconds since it was stamped) once bound
  check_trading,            \* download_active_stocks.py: not --no-check-trading
  fetch_company_info,       \* --fetch-company-info
  columns,                  \* df.columns of listing.all_symbols()
  existing_data,            \* load_existing_data(output_file): symbol -> record
  family_mapping,           \* load_family_mapping(...): symbol -> ecosystem name
  active_csv,               \* the output CSV: None, or Some(records)
  step,                     \* where get_active_symbols is
  rows_read,                \* rows of the current table iterated so far
  exchange_symbol_map,      \* dict: symbol -> exchange
  industry_symbol_map,      \* dict: symbol -> industry
  ecosystem_symbol_map,     \* dict: symbol as listed -> ecosystem or None
  organ_name_map,           \* dict: symbol as listed -> organ_name or None
  industry_col,             \* the industry column chosen in all_symbols(), or None
  all_symbols,              \* the records built so far
  api_call_count,
  time_bound,               \* whether `import time` of line 875 has bound the local
  checks,                   \* the calls of check_symbol_active so far, in order
  active_symbols            \* what get_active_symbols returned, None before

vars ==
  <<parquet, manifest_csv, failed_csv, script, max_workers, run, prev_success, prev_tried,
    exit_code,
    elapsed, since_grant, grant_gap,
    rate_limit_lock, pc, task, attempt, timer, nwaits, wait_time, calls, exc, df, result,
    queue, future, fetches, symbols_to_download, yielded, results, success_count, fail_count, total_rows,
    local_last_request_time,
    check_trading, fetch_company_info, columns, existing_data, family_mapping, active_csv,
    step, rows_read, exchange_symbol_map, industry_symbol_map, ecosystem_symbol_map,
    organ_name_map, industry_col, all_symbols, api_call_count, time_bound, checks,
    active_symbols>>

\* what download_active_stocks.py is given: its flags and the files it reads
listing_inputs ==
  <<check_trading, fetch_company_info, columns, existing_data, family_mapping>>
\* the locals of get_active_symbols and the file it writes
listing ==
  <<active_csv, step, rows_read, exchange_symbol_map, industry_symbol_map,
    ecosystem_symbol_map, organ_name_map, industry_col, all_symbols, api_call_count,
    time_bound, checks, active_symbols>>

disk ==
  <<parquet, manifest_csv, failed_csv>>
process ==
  <<script, max_workers, run, prev_success, prev_tried>>
clock ==
  <<elapsed, since_grant, grant_gap>>
loop ==
  <<attempt, timer, nwaits, wait_time, calls, exc, df, result>>
counters ==
  <<results, success_count, fail_count, total_rows>>

Free ==
  -1
NoTask ==
  -1

\* {}: the dict without keys
EmptyDict ==
  [k \in {} |-> <<>>]

\* the state of a fresh process: module globals and no thread started
ProcessStart ==
  /\ exit_code = None
  /\ elapsed = ClockCap
  /\ since_grant = None
  /\ grant_gap = None
  /\ rate_limit_lock = Free
  /\ pc = [t \in Threads |-> IF t = Driver THEN "main" ELSE "idle"]
  /\ task = [t \in Threads |-> NoTask]
  /\ attempt = [t \in Threads |-> 0]
  /\ timer = [t \in Threads |-> 0]
  /\ nwaits = [t \in Threads |-> 0]
  /\ wait_time = [t \in Threads |-> None]
  /\ calls = [t \in Threads |-> 0]
  /\ exc = [t \in Threads |-> None]
  /\ df = [t \in Threads |-> None]
  /\ result = [t \in Threads |-> None]
  /\ queue = <<>>
  /\ future = [s \in Symbols |-> None]
  /\ fetches = [s \in Stems |-> 0]
  /\ symbols_to_download = <<>>
  /\ yielded = {}
  /\ results = <<>>
  /\ success_count = 0
  /\ fail_count = 0
  /\ total_rows = 0
  /\ local_last_request_time = None
  /\ step = "main"
  /\ rows_read = 0
  /\ exchange_symbol_map = EmptyDict
  /\ industry_symbol_map = EmptyDict
  /\ ecosystem_symbol_map = EmptyDict
  /\ organ_name_map = EmptyDict
  /\ industry_col = None
  /\ all_symbols = <<>>
  /\ api_call_count = 0
  /\ time_bound = FALSE
  /\ checks = <<>>
  /\ active_symbols = None

\* the downloader scripts take no listing flags and read no listing files
NoListing ==
  /\ check_trading = FALSE
  /\ fetch_company_info = FALSE
  /\ columns = {}
  /\ existing_data = EmptyDict
  /\ family_mapping = EmptyDict
  /\ active_csv = None

\* an empty output directory
EmptyDisk ==
  /\ parquet = [s \in Stems |-> 0]
  /\ manifest_csv = None
  /\ failed_csv = None

\* python download_vn_stocks.py --workers max_workers, run once
Init ==
  /\ EmptyDisk
  /\ script = "download_vn_stocks"
  /\ max_workers \in 1..NumWorkers
  /\ run = 1
  /\ prev_success = {}
  /\ prev_tried = {}
  /\ ProcessStart
  /\ NoListing

(***************************************************************************)
(* download_all_symbols up to the submission of the work items.            *)
(***************************************************************************)
\* a variant of the scan that looks for files of another suffix and finds none
existing_files_other_suffix ==
  {s \in Stems : FALSE}

\* existing_files = set(f.stem for f in output_path.glob("*.parquet"))
existing_files ==
  {s \in Stems : parquet[s] > 0}

\* a variant of the filter that keeps every listed symbol
ToDownloadAll(listed) ==
  listed

\* [s for s in symbols if s not in existing_files]
ToDownload(listed) ==
  SelectSeq(listed, LAMBDA s : s \notin existing_files)

\* get_all_symbols() returns the list, or [] when the listing fails; the function
\* returns early on an empty list and when every symbol has its file, and main()
\* then ends with exit code 0
StartRun ==
  /\ pc[Driver] = "main"
  /\ script = "download_vn_stocks"
  /\ \E listed \in {symbols, <<>>} :
       IF ToDownload(listed) = <<>>
       THEN /\ pc' = [pc EXCEPT ![Driver] = "returned"]
            /\ exit_code' = Some(0)
            /\ UNCHANGED <<listing_inputs, listing, symbols_to_download, queue>>
       ELSE /\ pc' = [pc EXCEPT ![Driver] = "as_completed"]
            /\ symbols_to_download' = ToDownload(listed)
            /\ queue' = ToDownload(listed)
            /\ UNCHANGED exit_code
  /\ UNCHANGED <<listing_inputs, listing, disk, process, clock, rate_limit_lock, task, loop, future, fetches,
                 yielded, counters, local_last_request_time>>

\* a pool thread takes the next submitted work item and enters download_symbol_data
TakeTask(w) ==
  /\ w \in 1..max_workers
  /\ pc[w] = "idle"
  /\ queue # <<>>
  /\ task' = [task EXCEPT ![w] = Head(queue)]
  /\ queue' = Tail(queue)
  /\ pc' = [pc EXCEPT ![w] = "gate"]
  /\ UNCHANGED <<listing_inputs, listing, disk, process, exit_code, clock, rate_limit_lock, loop, future, fetches,
                 symbols_to_download, yielded, counters, local_last_request_time>>

(***************************************************************************)
(* The Rate Gate: with rate_limit_lock: check, sleep, stamp.               *)
(***************************************************************************)
\* last_request_time = time.time() inside the gate
GateStamp ==
  /\ elapsed' = 0
  /\ grant_gap' = since_grant
  /\ since_grant' = Some(0)

\* a variant of the gate that sleeps without holding rate_limit_lock
GateUnlocked(t) ==
  /\ pc[t] = "gate"
  /\ rate_limit_lock = Free
  /\ IF elapsed < min_request_interval
     THEN /\ timer' = [timer EXCEPT ![t] = min_request_interval - elapsed]
          /\ pc' = [pc EXCEPT ![t] = "gate_sleep"]
          /\ UNCHANGED <<listing_inputs, listing, clock, rate_limit_lock>>
     ELSE /\ GateStamp
          /\ pc' = [pc EXCEPT ![t] = "fetch"]
          /\ UNCHANGED <<listing_inputs, listing, rate_limit_lock, timer>>
  /\ UNCHANGED <<listing_inputs, listing, disk, process, exit_code, task, attempt, nwaits, wait_time, calls, exc, df,
                 result, queue, future, fetches, symbols_to_download, yielded, counters,
                 local_last_request_time>>

\* the thread takes the lock; when the interval has passed it stamps and leaves,
\* otherwise it sleeps wait_needed seconds holding the lock
Gate(t) ==
  /\ pc[t] = "gate"
  /\ rate_limit_lock = Free
  /\ IF elapsed < min_request_interval
     THEN /\ rate_limit_lock' = t
          /\ timer' = [timer EXCEPT ![t] = min_request_interval - elapsed]
          /\ pc' = [pc EXCEPT ![t] = "gate_sleep"]
          /\ UNCHANGED clock
     ELSE /\ GateStamp
          /\ pc' = [pc EXCEPT ![t] = "fetch"]
          /\ UNCHANGED <<listing_inputs, listing, rate_limit_lock, timer>>
  /\ UNCHANGED <<listing_inputs, listing, disk, process, exit_code, task, attempt, nwaits, wait_time, calls, exc, df,
                 result, queue, future, fetches, symbols_to_download, yielded, counters,
                 local_last_request_time>>

\* time.sleep(wait_needed) is over: stamp and release the lock
GateWake(t) ==
  /\ pc[t] = "gate_sleep"
  /\ timer[t] = 0
  /\ GateStamp
  /\ rate_limit_lock' = Free
  /\ pc' = [pc EXCEPT ![t] = "fetch"]
  /\ UNCHANGED <<listing_inputs, listing, disk, process, exit_code, task, loop, queue, future, fetches,
                 symbols_to_download, yielded, counters, local_last_request_time>>

(***************************************************************************)
(* download_symbol_data: one attempt and what follows it.                  *)
(***************************************************************************)
\* one more call of quote.history()
Called(t) ==
  /\ calls' = [calls EXCEPT ![t] = calls[t] + 1]
  /\ fetches' = [fetches EXCEPT ![task[t]] = fetches[task[t]] + 1]

\* the thread reaches a return statement of download_symbol_data
ReturnWith(t, r) ==
  /\ result' = [result EXCEPT ![t] = Some(r)]
  /\ pc' = [pc EXCEPT ![t] = "return"]

\* quote.history() returns n rows: the file is written and the loop returns success
FetchRows(t, n) ==
  /\ pc[t] = "fetch"
  /\ Called(t)
  /\ df' = [df EXCEPT ![t] = Some(n)]
  /\ parquet' = [parquet EXCEPT ![task[t]] = n]
  /\ ReturnWith(t, OkResult(task[t], n))
  /\ UNCHANGED <<listing_inputs, listing, manifest_csv, failed_csv, process, exit_code, clock, rate_limit_lock, task,
                 attempt, timer, nwaits, wait_time, exc, queue, future,
                 symbols_to_download, yielded, counters, local_last_request_time>>

\* a variant in which an empty answer is tried again like a throttled one
FetchEmptyRetry(t) ==
  /\ pc[t] = "fetch"
  /\ Called(t)
  /\ df' = [df EXCEPT ![t] = Some(0)]
  /\ IF RetriesLeft(attempt[t])
     THEN /\ attempt' = [attempt EXCEPT ![t] = attempt[t] + 1]
          /\ pc' = [pc EXCEPT ![t] = "gate"]
          /\ UNCHANGED result
     ELSE /\ ReturnWith(t, NoDataResult(task[t]))
          /\ UNCHANGED attempt
  /\ UNCHANGED <<listing_inputs, listing, disk, process, exit_code, clock, rate_limit_lock, task, timer,
                 nwaits, wait_time, exc, queue, future, symbols_to_download, yielded,
                 counters, local_last_request_time>>

\* quote.history() returns None or an empty table
FetchEmpty(t) ==
  /\ pc[t] = "fetch"
  /\ Called(t)
  /\ df' = [df EXCEPT ![t] = Some(0)]
  /\ ReturnWith(t, NoDataResult(task[t]))
  /\ UNCHANGED <<listing_inputs, listing, disk, process, exit_code, clock, rate_limit_lock, task, attempt, timer,
                 nwaits, wait_time, exc, queue, future, symbols_to_download, yielded,
                 counters, local_last_request_time>>

\* wait_with_countdown(wait_time): wait_time sleeps of one second, none when <= 0
Countdown(seconds) ==
  IF seconds <= 0 THEN 0 ELSE Min(seconds, TimerCap)

\* a variant of the except branch entered after the file has been written: the
\* exception comes from a statement that follows df.to_parquet
FetchRaisesAfterWrite(t, e) ==
  /\ pc[t] = "fetch"
  /\ Called(t)
  /\ exc' = [exc EXCEPT ![t] = Some(e)]
  /\ df' = [df EXCEPT ![t] = None]
  /\ IF Classified[e].rate_limit
     THEN /\ wait_time' = [wait_time EXCEPT ![t] = Some(BackoffWait(e, attempt[t]))]
          /\ IF RetriesLeft(attempt[t])
             THEN /\ pc' = [pc EXCEPT ![t] = "countdown"]
                  /\ timer' = [timer EXCEPT ![t] = Countdown(BackoffWait(e, attempt[t]))]
                  /\ nwaits' = [nwaits EXCEPT ![t] = nwaits[t] + 1]
                  /\ UNCHANGED result
             ELSE /\ ReturnWith(t, ExhaustedResult(task[t], e, attempt[t]))
                  /\ UNCHANGED <<listing_inputs, listing, timer, nwaits>>
     ELSE /\ ReturnWith(t, OtherResult(task[t], e))
          /\ UNCHANGED <<listing_inputs, listing, timer, nwaits, wait_time>>
  /\ parquet' = [parquet EXCEPT ![task[t]] = 100]
  /\ UNCHANGED <<listing_inputs, listing, manifest_csv, failed_csv, process, exit_code, clock, rate_limit_lock, task, attempt, queue,
                 future, symbols_to_download, yielded, counters, local_last_request_time>>

\* quote.history() raises an exception with text e: the except branch
FetchRaises(t, e) ==
  /\ pc[t] = "fetch"
  /\ Called(t)
  /\ exc' = [exc EXCEPT ![t] = Some(e)]
  /\ df' = [df EXCEPT ![t] = None]
  /\ IF Classified[e].rate_limit
     THEN /\ wait_time' = [wait_time EXCEPT ![t] = Some(BackoffWait(e, attempt[t]))]
          /\ IF RetriesLeft(attempt[t])
             THEN /\ pc' = [pc EXCEPT ![t] = "countdown"]
                  /\ timer' = [timer EXCEPT ![t] = Countdown(BackoffWait(e, attempt[t]))]
                  /\ nwaits' = [nwaits EXCEPT ![t] = nwaits[t] + 1]
                  /\ UNCHANGED result
             ELSE /\ ReturnWith(t, ExhaustedResult(task[t], e, attempt[t]))
                  /\ UNCHANGED <<listing_inputs, listing, timer, nwaits>>
     ELSE /\ ReturnWith(t, OtherResult(task[t], e))
          /\ UNCHANGED <<listing_inputs, listing, timer, nwaits, wait_time>>
  /\ UNCHANGED <<listing_inputs, listing, disk, process, exit_code, clock, rate_limit_lock, task, attempt, queue,
                 future, symbols_to_download, yielded, counters, local_last_request_time>>

\* extract_wait_time(error_msg) or 20, plus 5: the driver's own wait
DriverWait(e) ==
  (IF Classified[e].hint # None /\ Classified[e].hint[1] # 0
   THEN Classified[e].hint[1] ELSE 20) + 5

\* the countdown is over and the thread stamps last_request_time under the lock.
\* In download_symbol_data: the global, then `continue`, and the return after the
\* loop when the range is used up.  In download_all_symbols: its local, then the
\* call download_symbol_data(symbol, ...) in the driver's own thread
AfterCountdown(t) ==
  /\ pc[t] \in {"countdown", "countdown_driver"}
  /\ timer[t] = 0
  /\ rate_limit_lock = Free
  /\ IF pc[t] = "countdown"
     THEN /\ elapsed' = 0
          /\ IF attempt[t] + 1 < max_retries
             THEN /\ attempt' = [attempt EXCEPT ![t] = attempt[t] + 1]
                  /\ pc' = [pc EXCEPT ![t] = "gate"]
                  /\ UNCHANGED result
             ELSE /\ ReturnWith(t, FellThroughResult(task[t]))
                  /\ UNCHANGED attempt
          /\ UNCHANGED <<listing_inputs, listing, nwaits, wait_time, calls, exc, df, local_last_request_time>>
     ELSE /\ local_last_request_time' = Some(0)
          /\ pc' = [pc EXCEPT ![t] = "gate"]
          /\ attempt' = [attempt EXCEPT ![t] = 0]
          /\ nwaits' = [nwaits EXCEPT ![t] = 0]
          /\ wait_time' = [wait_time EXCEPT ![t] = None]
          /\ calls' = [calls EXCEPT ![t] = 0]
          /\ exc' = [exc EXCEPT ![t] = None]
          /\ df' = [df EXCEPT ![t] = None]
          /\ UNCHANGED <<listing_inputs, listing, elapsed, result>>
  /\ UNCHANGED <<listing_inputs, listing, disk, process, exit_code, since_grant, grant_gap, rate_limit_lock, task,
                 timer, queue, future, fetches, symbols_to_download, yielded, counters>>

\* a variant of the return in which a pool thread appends its own result to results
\* and counts it, instead of leaving that to the driver
ReturnAppending(t) ==
  /\ pc[t] = "return"
  /\ pc' = [pc EXCEPT ![t] = IF t # Driver THEN "idle"
                              ELSE IF script = "download_vn30" THEN "returned"
                              ELSE "as_completed"]
  /\ task' = [task EXCEPT ![t] = NoTask]
  /\ attempt' = [attempt EXCEPT ![t] = 0]
  /\ nwaits' = [nwaits EXCEPT ![t] = 0]
  /\ wait_time' = [wait_time EXCEPT ![t] = None]
  /\ calls' = [calls EXCEPT ![t] = 0]
  /\ exc' = [exc EXCEPT ![t] = None]
  /\ df' = [df EXCEPT ![t] = None]
  /\ result' = [result EXCEPT ![t] = None]
  /\ IF script = "download_vn30"
     THEN /\ exit_code' = Some(IF result[t][1][2] THEN 0 ELSE 1)
          /\ UNCHANGED <<counters, future>>
     ELSE /\ results' = Append(results, result[t][1])
          /\ success_count' = IF result[t][1][2] THEN success_count + 1 ELSE success_count
          /\ total_rows' = IF result[t][1][2] THEN total_rows + result[t][1][4]
                           ELSE total_rows
          /\ fail_count' = IF result[t][1][2] THEN fail_count ELSE fail_count + 1
          /\ future' = IF t # Driver THEN [future EXCEPT ![task[t]] = result[t]] ELSE future
          /\ UNCHANGED exit_code
  /\ UNCHANGED <<listing_inputs, listing, disk, process, clock, rate_limit_lock, timer, queue, fetches,
                 symbols_to_download, yielded, local_last_request_time>>

\* download_symbol_data returns.  In a pool thread the future is done and the thread
\* is free again.  In the driver of download_all_symbols (the call after its own wait)
\* retry_result is appended and counted, pbar.update(1), and the as_completed loop
\* goes on.  In download_vn30 a success ends the script with exit code 0, a failure
\* with sys.exit(1)
Return(t) ==
  /\ pc[t] = "return"
  /\ pc' = [pc EXCEPT ![t] = IF t # Driver THEN "idle"
                              ELSE IF script = "download_vn30" THEN "returned"
                              ELSE "as_completed"]
  /\ task' = [task EXCEPT ![t] = NoTask]
  /\ attempt' = [attempt EXCEPT ![t] = 0]
  /\ nwaits' = [nwaits EXCEPT ![t] = 0]
  /\ wait_time' = [wait_time EXCEPT ![t] = None]
  /\ calls' = [calls EXCEPT ![t] = 0]
  /\ exc' = [exc EXCEPT ![t] = None]
  /\ df' = [df EXCEPT ![t] = None]
  /\ result' = [result EXCEPT ![t] = None]
  /\ IF t # Driver
     THEN /\ future' = [future EXCEPT ![task[t]] = result[t]]
          /\ UNCHANGED <<listing_inputs, listing, counters, exit_code>>
     ELSE IF script = "download_vn30"
     THEN /\ exit_code' = Some(IF result[t][1][2] THEN 0 ELSE 1)
          /\ UNCHANGED <<listing_inputs, listing, counters, future>>
     ELSE /\ results' = Append(results, result[t][1])
          /\ success_count' = IF result[t][1][2] THEN success_count + 1 ELSE success_count
          /\ total_rows' = IF result[t][1][2] THEN total_rows + result[t][1][4]
                           ELSE total_rows
          /\ fail_count' = IF result[t][1][2] THEN fail_count - 1 ELSE fail_count
          /\ UNCHANGED <<listing_inputs, listing, future, exit_code>>
  /\ UNCHANGED <<listing_inputs, listing, disk, process, clock, rate_limit_lock, timer, queue, fetches,
                 symbols_to_download, yielded, local_last_request_time>>

(***************************************************************************)
(* download_all_symbols: the as_completed loop, the manifest.              *)
(***************************************************************************)
\* as_completed hands over a finished future: result = future.result(),
\* results.append(result), the counters, pbar.update(1)
DriverTake(s) ==
  /\ pc[Driver] = "as_completed"
  /\ s \in Symbols \ yielded
  /\ future[s] # None
  /\ yielded' = yielded \cup {s}
  /\ task' = [task EXCEPT ![Driver] = s]
  /\ results' = Append(results, future[s][1])
  /\ success_count' = IF future[s][1][2] THEN success_count + 1 ELSE success_count
  /\ total_rows' = IF future[s][1][2] THEN total_rows + future[s][1][4] ELSE total_rows
  /\ fail_count' = IF future[s][1][2] THEN fail_count ELSE fail_count + 1
  /\ pc' = [pc EXCEPT ![Driver] = "inter_item"]
  /\ UNCHANGED <<listing_inputs, listing, disk, process, exit_code, clock, rate_limit_lock, loop, queue, future,
                 fetches, symbols_to_download, local_last_request_time>>

\* a variant of the except branch that lets the exception leave the loop
DriverExceptRaise(e) ==
  /\ fail_count' = fail_count + 1
  /\ pc' = [pc EXCEPT ![Driver] = "raised"]
  /\ UNCHANGED <<listing_inputs, listing, results, task, timer, wait_time, success_count, total_rows,
                 rate_limit_lock, local_last_request_time>>

\* a variant of the except branch that waits and retries after every exception,
\* throttling phrase or not
DriverExceptRetries(e) ==
  /\ fail_count' = fail_count + 1
  /\ pc' = [pc EXCEPT ![Driver] = "countdown_driver"]
  /\ wait_time' = [wait_time EXCEPT ![Driver] = Some(DriverWait(e))]
  /\ timer' = [timer EXCEPT ![Driver] = Countdown(DriverWait(e))]
  /\ UNCHANGED <<listing_inputs, listing, results, task, success_count, total_rows,
                 rate_limit_lock, local_last_request_time>>

\* the except branch of the as_completed loop for an exception with text e
DriverExcept(e) ==
  /\ fail_count' = fail_count + 1
  /\ IF Classified[e].rate_limit
     THEN /\ pc' = [pc EXCEPT ![Driver] = "countdown_driver"]
          /\ wait_time' = [wait_time EXCEPT ![Driver] = Some(DriverWait(e))]
          /\ timer' = [timer EXCEPT ![Driver] = Countdown(DriverWait(e))]
          /\ UNCHANGED <<listing_inputs, listing, results, task>>
     ELSE /\ results' = Append(results, <<task[Driver], FALSE, e, 0>>)
          /\ pc' = [pc EXCEPT ![Driver] = "as_completed"]
          /\ task' = [task EXCEPT ![Driver] = NoTask]
          /\ UNCHANGED <<listing_inputs, listing, timer, wait_time>>
  /\ UNCHANGED <<listing_inputs, listing, success_count, total_rows, rate_limit_lock, local_last_request_time>>

\* random.uniform(0, 0.5) in whole seconds
Jitter ==
  {0, 1}

\* the inter-item sleep: with rate_limit_lock: elapsed = time.time() - last_request_time
\* reads the local; unbound, the read raises UnboundLocalError inside the try; bound,
\* the driver sleeps sleep_time holding the lock and stamps the local
DriverInterItemSleep ==
  /\ pc[Driver] \in {"inter_item", "inter_item_sleep"}
  /\ IF pc[Driver] = "inter_item"
     THEN /\ rate_limit_lock = Free
          /\ IF local_last_request_time = None
             THEN DriverExcept(MSG_unbound)
             ELSE /\ \E j \in Jitter :
                       timer' = [timer EXCEPT ![Driver] =
                                   IF local_last_request_time[1] < sleep
                                   THEN sleep - local_last_request_time[1] + j
                                   ELSE j]
                  /\ rate_limit_lock' = Driver
                  /\ pc' = [pc EXCEPT ![Driver] = "inter_item_sleep"]
                  /\ UNCHANGED <<listing_inputs, listing, counters, task, wait_time, local_last_request_time>>
     ELSE /\ timer[Driver] = 0
          /\ local_last_request_time' = Some(0)
          /\ rate_limit_lock' = Free
          /\ pc' = [pc EXCEPT ![Driver] = "as_completed"]
          /\ task' = [task EXCEPT ![Driver] = NoTask]
          /\ UNCHANGED <<listing_inputs, listing, counters, timer, wait_time>>
  /\ UNCHANGED <<listing_inputs, listing, disk, process, exit_code, clock, attempt, nwaits, calls, exc, df, result, queue,
                 future, fetches, symbols_to_download, yielded>>

\* a variant of the manifest row that names the file for a failed record as well
ManifestRowWithFile(r) ==
  [symbol |-> r[1], status |-> IF r[2] THEN "SUCCESS" ELSE "FAILED", message |-> r[3],
   row_count |-> r[4], file |-> Some(r[1])]

\* one manifest row per element of results
ManifestRow(r) ==
  [symbol |-> r[1], status |-> IF r[2] THEN "SUCCESS" ELSE "FAILED", message |-> r[3],
   row_count |-> r[4], file |-> IF r[2] THEN Some(r[1]) ELSE None]

\* failed_symbols = [r[0] for r in results if not r[1]]
failed_symbols ==
  LET failed == SelectSeq(results, LAMBDA r : ~r[2])
  IN  [i \in 1..Len(failed) |-> failed[i][1]]

\* a variant of the end of the run that writes the manifest and no failed list
WriteManifestOnly ==
  /\ pc[Driver] = "as_completed"
  /\ yielded = {symbols_to_download[i] : i \in 1..Len(symbols_to_download)}
  /\ manifest_csv' = Some([i \in 1..Len(results) |-> ManifestRow(results[i])])
  /\ pc' = [pc EXCEPT ![Driver] = "returned"]
  /\ exit_code' = Some(0)
  /\ UNCHANGED <<listing_inputs, listing, parquet, failed_csv, process, clock, rate_limit_lock, task, loop, queue,
                 future, fetches, symbols_to_download, yielded, counters,
                 local_last_request_time>>

\* a variant of the end of the run that exits with code 1 when a record failed
WriteManifestExitOnFailure ==
  /\ pc[Driver] = "as_completed"
  /\ yielded = {symbols_to_download[i] : i \in 1..Len(symbols_to_download)}
  /\ manifest_csv' = Some([i \in 1..Len(results) |-> ManifestRow(results[i])])
  /\ failed_csv' = IF failed_symbols # <<>> THEN Some(failed_symbols) ELSE failed_csv
  /\ pc' = [pc EXCEPT ![Driver] = "returned"]
  /\ exit_code' = Some(IF failed_symbols # <<>> THEN 1 ELSE 0)
  /\ UNCHANGED <<listing_inputs, listing, parquet, process, clock, rate_limit_lock, task, loop, queue,
                 future, fetches, symbols_to_download, yielded, counters,
                 local_last_request_time>>

\* every future has been handled: manifest.csv is written, failed.csv when some
\* record failed, the function returns and main() ends with exit code 0
WriteManifest ==
  /\ pc[Driver] = "as_completed"
  /\ yielded = {symbols_to_download[i] : i \in 1..Len(symbols_to_download)}
  /\ manifest_csv' = Some([i \in 1..Len(results) |-> ManifestRow(results[i])])
  /\ failed_csv' = IF failed_symbols # <<>> THEN Some(failed_symbols) ELSE failed_csv
  /\ pc' = [pc EXCEPT ![Driver] = "returned"]
  /\ exit_code' = Some(0)
  /\ UNCHANGED <<listing_inputs, listing, parquet, process, clock, rate_limit_lock, task, loop, queue,
                 future, fetches, symbols_to_download, yielded, counters,
                 local_last_request_time>>

\* the script is run again against the same output directory: a new process
Rerun ==
  /\ pc[Driver] = "returned"
  /\ run < MaxRuns
  /\ run' = run + 1
  /\ prev_success' = prev_success \cup {results[i][1] : i \in {j \in 1..Len(results) : results[j][2]}}
  /\ prev_tried' = prev_tried \cup {symbols_to_download[i] : i \in 1..Len(symbols_to_download)}
  /\ exit_code' = None
  /\ elapsed' = ClockCap
  /\ since_grant' = None
  /\ grant_gap' = None
  /\ rate_limit_lock' = Free
  /\ pc' = [t \in Threads |-> IF t = Driver THEN "main" ELSE "idle"]
  /\ task' = [t \in Threads |-> NoTask]
  /\ attempt' = [t \in Threads |-> 0]
  /\ timer' = [t \in Threads |-> 0]
  /\ nwaits' = [t \in Threads |-> 0]
  /\ wait_time' = [t \in Threads |-> None]
  /\ calls' = [t \in Threads |-> 0]
  /\ exc' = [t \in Threads |-> None]
  /\ df' = [t \in Threads |-> None]
  /\ result' = [t \in Threads |-> None]
  /\ queue' = <<>>
  /\ future' = [s \in Symbols |-> None]
  /\ fetches' = [s \in Stems |-> 0]
  /\ symbols_to_download' = <<>>
  /\ yielded' = {}
  /\ results' = <<>>
  /\ success_count' = 0
  /\ fail_count' = 0
  /\ total_rows' = 0
  /\ local_last_request_time' = None
  /\ UNCHANGED <<listing_inputs, listing, disk, script, max_workers>>

(***************************************************************************)
(* Time.                                                                   *)
(***************************************************************************)
\* one second passes: every sleeping thread has one second less to sleep
Tick ==
  /\ elapsed' = Min(elapsed + 1, ClockCap)
  /\ since_grant' = IF since_grant = None THEN None
                    ELSE Some(Min(since_grant[1] + 1, ClockCap))
  /\ local_last_request_time' =
       IF local_last_request_time = None THEN None
       ELSE Some(Min(local_last_request_time[1] + 1, ClockCap))
  /\ timer' = [t \in Threads |-> IF timer[t] > 0 THEN timer[t] - 1 ELSE 0]
  /\ UNCHANGED <<listing_inputs, listing, disk, process, exit_code, grant_gap, rate_limit_lock, pc, task, attempt,
                 nwaits, wait_time, calls, exc, df, result, queue, future, fetches,
                 symbols_to_download, yielded, counters>>

(***************************************************************************)
(* download_vn30.py: the same loop, once, in the main thread.              *)
(***************************************************************************)
\* download_vn30: when VN30.parquet exists and --force is not given the user is asked;
\* any answer but "y" ends the script.  Otherwise download_vn30_data is called
StartVN30 ==
  /\ pc[Driver] = "main"
  /\ script = "download_vn30"
  /\ \E force \in BOOLEAN, response_is_y \in BOOLEAN :
       IF parquet[VN30] > 0 /\ ~force /\ ~response_is_y
       THEN /\ pc' = [pc EXCEPT ![Driver] = "returned"]
            /\ exit_code' = Some(0)
            /\ UNCHANGED task
       ELSE /\ pc' = [pc EXCEPT ![Driver] = "gate"]
            /\ task' = [task EXCEPT ![Driver] = VN30]
            /\ UNCHANGED exit_code
  /\ UNCHANGED <<listing_inputs, listing, disk, process, clock, rate_limit_lock, loop, queue, future, fetches,
                 symbols_to_download, yielded, counters, local_last_request_time>>

(***************************************************************************)
(* main(): an interrupt of the operator.                                   *)
(***************************************************************************)
\* KeyboardInterrupt is raised in the main thread, wherever it is.  No handler of
\* download_symbol_data, download_vn30_data or download_all_symbols catches it
\* (they catch Exception): the frames are unwound, a lock the main thread holds is
\* released, and the with block of the pool is left
KeyboardInterrupt ==
  /\ pc[Driver] \notin {"returned", "shutdown", "interrupted"}
  /\ pc' = [pc EXCEPT ![Driver] = "shutdown"]
  /\ rate_limit_lock' = IF rate_limit_lock = Driver THEN Free ELSE rate_limit_lock
  /\ task' = [task EXCEPT ![Driver] = NoTask]
  /\ attempt' = [attempt EXCEPT ![Driver] = 0]
  /\ timer' = [timer EXCEPT ![Driver] = 0]
  /\ nwaits' = [nwaits EXCEPT ![Driver] = 0]
  /\ wait_time' = [wait_time EXCEPT ![Driver] = None]
  /\ calls' = [calls EXCEPT ![Driver] = 0]
  /\ exc' = [exc EXCEPT ![Driver] = None]
  /\ df' = [df EXCEPT ![Driver] = None]
  /\ result' = [result EXCEPT ![Driver] = None]
  /\ symbols_to_download' = <<>>
  /\ yielded' = {}
  /\ results' = <<>>
  /\ success_count' = 0
  /\ fail_count' = 0
  /\ total_rows' = 0
  /\ local_last_request_time' = None
  /\ UNCHANGED <<listing_inputs, listing, disk, process, exit_code, clock, queue, future, fetches>>

\* ThreadPoolExecutor.__exit__ waits for the work items already submitted; then
\* main() handles the interrupt: except KeyboardInterrupt: sys.exit(0)
MainExcept ==
  /\ pc[Driver] = "shutdown"
  /\ queue = <<>>
  /\ \A w \in Workers : pc[w] = "idle"
  /\ pc' = [pc EXCEPT ![Driver] = "interrupted"]
  /\ exit_code' = Some(0)
  /\ UNCHANGED <<listing_inputs, listing, disk, process, clock, rate_limit_lock, task, loop, queue, future, fetches,
                 symbols_to_download, yielded, counters, local_last_request_time>>

(***************************************************************************)
(* Specifications.                                                         *)
(***************************************************************************)
\* one run of download_vn_stocks.py
Next ==
  \/ StartRun
  \/ \E w \in Workers : TakeTask(w)
  \/ \E t \in Threads : Gate(t)
  \/ \E t \in Threads : GateWake(t)
  \/ \E t \in Threads, n \in RowChoices : FetchRows(t, n)
  \/ \E t \in Threads : FetchEmpty(t)
  \/ \E t \in Threads, e \in ErrTexts : FetchRaises(t, e)
  \/ \E t \in Threads : AfterCountdown(t)
  \/ \E t \in Threads : Return(t)
  \/ \E s \in Symbols : DriverTake(s)
  \/ DriverInterItemSleep
  \/ WriteManifest
  \/ Tick

Spec ==
  Init /\ [][Next]_vars

\* python download_vn_stocks.py with the default single worker, run up to MaxRuns
\* times against the same output directory
InitResume ==
  /\ EmptyDisk
  /\ script = "download_vn_stocks"
  /\ max_workers = 1
  /\ run = 1
  /\ prev_success = {}
  /\ prev_tried = {}
  /\ ProcessStart
  /\ NoListing

NextResume ==
  \/ Next
  \/ Rerun

SpecResume ==
  InitResume /\ [][NextResume]_vars

\* python download_vn30.py, run once, the output directory with or without VN30.parquet
InitVN30 ==
  /\ parquet \in {[s \in Stems |-> IF s = VN30 THEN n ELSE 0] : n \in {0} \cup RowChoices}
  /\ manifest_csv = None
  /\ failed_csv = None
  /\ script = "download_vn30"
  /\ max_workers = 1
  /\ run = 1
  /\ prev_success = {}
  /\ prev_tried = {}
  /\ ProcessStart
  /\ NoListing

NextVN30 ==
  \/ StartVN30
  \/ Gate(Driver)
  \/ GateWake(Driver)
  \/ \E n \in RowChoices : FetchRows(Driver, n)
  \/ FetchEmpty(Driver)
  \/ \E e \in AllErrTexts : FetchRaises(Driver, e)
  \/ AfterCountdown(Driver)
  \/ Return(Driver)
  \/ Tick

SpecVN30 ==
  InitVN30 /\ [][NextVN30]_vars

\* either script, run once, with an operator who may interrupt it
InitScripts ==
  \/ Init
  \/ InitVN30

NextScripts ==
  \/ Next
  \/ StartVN30
  \/ KeyboardInterrupt
  \/ MainExcept

SpecScripts ==
  InitScripts /\ [][NextScripts]_vars

\* one run of download_vn_stocks.py in which every call and every sleep returns and
\* every thread that can run does run
SpecLive ==
  Init /\ [][Next]_vars /\ WF_vars(Next)

(***************************************************************************)
(* download_active_stocks.py: get_active_symbols builds one record per     *)
(* listed symbol from the listing tables, the family file and the CSV of   *)
(* an earlier run.  A table cell is None for NaN/None and Some(text)       *)
(* otherwise; a dict is a function whose DOMAIN is its keys.               *)
(***************************************************************************)
UpperChar(c) ==
  IF \E i \in 1..Len(LOWER) : LOWER[i] = c
  THEN UPPER[CHOOSE i \in 1..Len(LOWER) : LOWER[i] = c]
  ELSE c

\* s.upper()
upper(s) ==
  [i \in 1..Len(s) |-> UpperChar(s[i])]

\* s.strip()
strip(s) ==
  IF \A i \in 1..Len(s) : s[i] \in SpaceChars
  THEN <<>>
  ELSE LET first == CHOOSE i \in 1..Len(s) :
                      s[i] \notin SpaceChars /\ \A j \in 1..(i - 1) : s[j] \in SpaceChars
           last  == CHOOSE i \in 1..Len(s) :
                      s[i] \notin SpaceChars /\ \A j \in (i + 1)..Len(s) : s[j] \in SpaceChars
       IN SubSeq(s, first, last)

\* str(cell) of a table cell: NaN prints as "nan"
pystr(cell) ==
  IF cell = None THEN <<"n","a","n">> ELSE cell[1]

\* pd.isna(cell)
isna(cell) ==
  cell = None

\* bool(v) of a value that is None or a text
Truthy(v) ==
  v # None /\ v[1] # <<>>

\* d[k] = v
Put(d, k, v) ==
  [x \in (DOMAIN d) \cup {k} |-> IF x = k THEN v ELSE d[x]]

\* d.get(k)
Get(d, k) ==
  IF k \in DOMAIN d THEN d[k] ELSE None

UNKNOWN ==
  <<"U","N","K","N","O","W","N">>
HOSE ==
  <<"H","O","S","E">>
HSX ==
  <<"H","S","X">>
HNX ==
  <<"H","N","X">>
UPCOM ==
  <<"U","P","C","O","M">>
OTC ==
  <<"O","T","C">>

\* exchange_map.get(exchange, exchange)
exchange_map(val) ==
  IF val = HSX THEN HOSE ELSE val

exchanges ==
  {HOSE, UPCOM, HNX}

\* save_batch_size=20
save_batch_size ==
  20

(***************************************************************************)
(* The values the tables and files hold in the runs explored.              *)
(***************************************************************************)
AAA ==
  <<"A","A","A">>
bbb ==
  <<"b","b","b">>
BBB ==
  <<"B","B","B">>
CCCC ==
  <<"C","C","C","C">>
TXT_Bank ==
  <<"B","a","n","k">>
TXT_None ==
  <<"N","o","n","e">>
TXT_blank ==
  <<" ">>
TXT_Steel ==
  <<"S","t","e","e","l">>
TXT_VIN ==
  <<" ","V","I","N">>
TXT_Ho_Masan ==
  <<"H","U+1ECD"," ","M","a","s","a","n">>
TXT_comment ==
  <<"#","x">>
TXT_organ ==
  <<"O","r","g">>
TXT_date ==
  <<"2","0","2","5">>

\* the rows listing.symbols_by_exchange() holds in the runs explored
SymbolsByExchangeRows ==
  { [symbol |-> Some(AAA), exchange |-> Some(<<" ","h","s","x">>)],
    [symbol |-> None,      exchange |-> Some(UPCOM)],
    [symbol |-> Some(bbb), exchange |-> Some(OTC)],
    [symbol |-> Some(bbb), exchange |-> None] }

\* the rows listing.symbols_by_industries() holds in the runs explored
SymbolsByIndustriesRows ==
  { [symbol |-> Some(AAA), industry |-> Some(TXT_Bank)],
    [symbol |-> Some(bbb), industry |-> Some(TXT_None)],
    [symbol |-> Some(bbb), industry |-> None] }

\* the rows listing.all_symbols() holds in the runs explored
AllSymbolsRows ==
  { [symbol |-> Some(AAA), exchange |-> Some(<<" ","h","s","x">>),
     industry |-> Some(TXT_Bank), ecosystem |-> Some(TXT_VIN), organ_name |-> Some(TXT_organ)],
    [symbol |-> Some(bbb), exchange |-> Some(<<" ","h","s","x">>),
     industry |-> Some(TXT_None), ecosystem |-> Some(TXT_blank), organ_name |-> None],
    [symbol |-> Some(AAA), exchange |-> Some(OTC),
     industry |-> None, ecosystem |-> None, organ_name |-> None],
    [symbol |-> Some(CCCC), exchange |-> Some(<<" ","h","s","x">>),
     industry |-> Some(TXT_Bank), ecosystem |-> None, organ_name |-> Some(TXT_organ)],
    [symbol |-> None, exchange |-> None,
     industry |-> None, ecosystem |-> None, organ_name |-> None] }

\* the column sets of listing.all_symbols() explored
ColumnSets ==
  { {"symbol", "exchange", "organ_name"},
    {"symbol", "comGroupCode", "industry", "ecosystem"},
    {"exchange", "organ_name"} }

(***************************************************************************)
(* load_family_mapping: rows of vietnam_stock_families.csv, each a family   *)
(* cell and the symbols cell already split at its commas.                  *)
(***************************************************************************)
\* the name a row maps its symbols to, None for a skipped row
ecosystem_name(family_cell) ==
  LET family_name == strip(pystr(family_cell))
      prefix == <<"H","U+1ECD"," ">>
  IN IF family_name = <<>> \/ family_name[1] = "#"
     THEN None
     ELSE IF Len(family_name) >= 3 /\ SubSeq(family_name, 1, 3) = prefix
          THEN Some(upper(strip(SubSeq(family_name, 4, Len(family_name)))))
          ELSE Some(upper(strip(family_name)))

RECURSIVE FamilyRow(_, _, _)
\* for symbol in symbols: if symbol and len(symbol) == 3: family_mapping[symbol] = name
FamilyRow(mapping, name, pieces) ==
  IF pieces = <<>>
  THEN mapping
  ELSE LET symbol == upper(strip(Head(pieces)))
       IN FamilyRow(IF Len(symbol) = 3 THEN Put(mapping, symbol, name) ELSE mapping,
                    name, Tail(pieces))

RECURSIVE FamilyRows(_, _)
FamilyRows(mapping, rows) ==
  IF rows = <<>>
  THEN mapping
  ELSE LET name == ecosystem_name(Head(rows).family)
       IN FamilyRows(IF name = None THEN mapping
                     ELSE FamilyRow(mapping, name[1], Head(rows).symbols),
                     Tail(rows))

load_family_mapping(rows) ==
  FamilyRows(EmptyDict, rows)

\* the family files explored: none, and one with a family, a comment row and a
\* row without a family name
FamilyFiles ==
  { <<>>,
    <<[family |-> Some(TXT_Ho_Masan), symbols |-> <<<<" ","a","a","a">>, CCCC>>],
      [family |-> Some(TXT_comment), symbols |-> <<AAA>>],
      [family |-> None, symbols |-> <<<<"N","A","N">>>>]>> }

(***************************************************************************)
(* load_existing_data: rows of the output CSV of an earlier run.           *)
(***************************************************************************)
\* str(row.get(f, 'UNKNOWN')) if pd.notna(row.get(f)) else 'UNKNOWN'
ExistingField(cell) ==
  IF isna(cell) THEN Some(UNKNOWN) ELSE Some(pystr(cell))

RECURSIVE ExistingRows(_, _)
ExistingRows(data, rows) ==
  IF rows = <<>>
  THEN data
  ELSE LET row == Head(rows)
       IN ExistingRows(Put(data, row.symbol,
                           [industry   |-> ExistingField(row.industry),
                            ecosystem  |-> ExistingField(row.ecosystem),
                            exchange   |-> ExistingField(row.exchange),
                            organ_name |-> IF isna(row.organ_name) THEN None
                                           ELSE Some(pystr(row.organ_name))]),
                       Tail(rows))

load_existing_data(rows) ==
  ExistingRows(EmptyDict, rows)

\* the CSVs explored: no file, and one with rows for AAA and BBB
ExistingFiles ==
  { <<>>,
    <<[symbol |-> AAA, industry |-> Some(TXT_Steel), ecosystem |-> None,
       exchange |-> Some(HNX), organ_name |-> None],
      [symbol |-> BBB, industry |-> None, ecosystem |-> Some(TXT_blank),
       exchange |-> None, organ_name |-> Some(TXT_organ)]>> }

(***************************************************************************)
(* get_active_symbols, lines 347-987.                                      *)
(***************************************************************************)
\* everything the downloader scripts own
batch ==
  <<disk, process, exit_code, clock, rate_limit_lock, pc, task, loop, queue, future,
    fetches, symbols_to_download, yielded, counters, local_last_request_time>>

\* python download_active_stocks.py [--no-check-trading] [--fetch-company-info]
InitActive ==
  /\ EmptyDisk
  /\ script = "download_active_stocks"
  /\ max_workers = 1
  /\ run = 1
  /\ prev_success = {}
  /\ prev_tried = {}
  /\ ProcessStart
  /\ check_trading \in BOOLEAN
  /\ fetch_company_info \in BOOLEAN
  /\ columns \in ColumnSets
  /\ existing_data \in {load_existing_data(rows) : rows \in ExistingFiles}
  /\ family_mapping \in {load_family_mapping(rows) : rows \in FamilyFiles}
  /\ active_csv = None

\* return []: an empty listing, a missing symbol column, or any exception
\* (line 983) ends the function with the empty list
ReturnEmpty ==
  /\ active_symbols' = Some(<<>>)
  /\ step' = "returned"

\* lines 359-483: the function sets up and imports vnstock; an import that fails
\* is caught at line 983
GetActiveSymbols ==
  /\ script = "download_active_stocks"
  /\ step = "main"
  /\ \E imported \in BOOLEAN :
       IF imported
       THEN step' = "symbols_by_exchange" /\ UNCHANGED active_symbols
       ELSE ReturnEmpty
  /\ UNCHANGED <<batch, listing_inputs, active_csv, rows_read, exchange_symbol_map,
                 industry_symbol_map, ecosystem_symbol_map, organ_name_map, industry_col,
                 all_symbols, api_call_count, time_bound, checks>>

\* lines 514-524: one row of listing.symbols_by_exchange()
SymbolsByExchangeRow ==
  /\ step = "symbols_by_exchange"
  /\ rows_read < NumRows
  /\ rows_read' = rows_read + 1
  /\ \E row \in SymbolsByExchangeRows :
       LET symbol == upper(strip(pystr(row.symbol)))
           exchange == exchange_map(upper(strip(pystr(row.exchange))))
       IN exchange_symbol_map' =
            IF ~isna(row.exchange) /\ exchange \in exchanges
            THEN Put(exchange_symbol_map, symbol, exchange)
            ELSE exchange_symbol_map
  /\ UNCHANGED <<batch, listing_inputs, active_csv, step, industry_symbol_map,
                 ecosystem_symbol_map, organ_name_map, industry_col, all_symbols,
                 api_call_count, time_bound, checks, active_symbols>>

\* lines 526-542: the table ends (or the call raised, lines 532-535) and the
\* function goes on to symbols_by_industries()
SymbolsByExchangeEnd ==
  /\ step = "symbols_by_exchange"
  /\ step' = "symbols_by_industries"
  /\ rows_read' = 0
  /\ UNCHANGED <<batch, listing_inputs, active_csv, exchange_symbol_map,
                 industry_symbol_map, ecosystem_symbol_map, organ_name_map, industry_col,
                 all_symbols, api_call_count, time_bound, checks, active_symbols>>

\* lines 564-572: one row of listing.symbols_by_industries()
SymbolsByIndustriesRow ==
  /\ step = "symbols_by_industries"
  /\ rows_read < NumRows
  /\ rows_read' = rows_read + 1
  /\ \E row \in SymbolsByIndustriesRows :
       LET symbol == upper(strip(pystr(row.symbol)))
           industry == strip(pystr(row.industry))
       IN industry_symbol_map' =
            IF /\ ~isna(row.industry)
               /\ industry # <<>>
               /\ industry # <<"n","a","n">>
               /\ lower(industry) # <<"n","o","n","e">>
            THEN Put(industry_symbol_map, symbol, industry)
            ELSE industry_symbol_map
  /\ UNCHANGED <<batch, listing_inputs, active_csv, step, exchange_symbol_map,
                 ecosystem_symbol_map, organ_name_map, industry_col, all_symbols,
                 api_call_count, time_bound, checks, active_symbols>>

\* possible_industry_cols of line 619, in the order the code tries them
possible_industry_cols ==
  <<"industry", "sector", "industry_name", "sector_name", "industryName", "sectorName",
    "nganh", "nhom_nganh", "icb_name", "icbName", "organ_type_name">>

\* lines 592-643: listing.all_symbols() answers; an empty table or one without a
\* symbol column returns []; the industry column is looked for only when
\* symbols_by_industries() gave nothing
AllSymbols ==
  /\ step = "symbols_by_industries"
  /\ rows_read' = 0
  /\ \E empty \in BOOLEAN :
       IF empty \/ {"symbol", "ticker", "code"} \cap columns = {}
       THEN ReturnEmpty /\ UNCHANGED industry_col
       ELSE /\ step' = "all_symbols"
            /\ industry_col' =
                 IF DOMAIN industry_symbol_map = {}
                      /\ \E i \in 1..Len(possible_industry_cols) :
                           possible_industry_cols[i] \in columns
                 THEN Some(possible_industry_cols[
                        CHOOSE i \in 1..Len(possible_industry_cols) :
                          /\ possible_industry_cols[i] \in columns
                          /\ \A j \in 1..(i - 1) : possible_industry_cols[j] \notin columns])
                 ELSE None
            /\ UNCHANGED active_symbols
  /\ UNCHANGED <<batch, listing_inputs, active_csv, exchange_symbol_map,
                 industry_symbol_map, ecosystem_symbol_map, organ_name_map, all_symbols,
                 api_call_count, time_bound, checks>>

\* the ecosystem column of lines 631-643; the tables explored have at most this one
ecosystem_col ==
  IF "ecosystem" \in columns THEN Some("ecosystem") ELSE None

\* lines 656-731: one row of listing.all_symbols()
AllSymbolsRow ==
  /\ step = "all_symbols"
  /\ rows_read < NumRows
  /\ rows_read' = rows_read + 1
  /\ \E row \in AllSymbolsRows :
       IF isna(row.symbol)
       THEN UNCHANGED <<exchange_symbol_map, industry_symbol_map, ecosystem_symbol_map,
                        organ_name_map>>
       ELSE LET symbol_str == pystr(row.symbol)
                symbol_normalized == upper(strip(symbol_str))
                exchange == exchange_map(upper(strip(pystr(row.exchange))))
                industry_str == strip(pystr(row.industry))
            IN /\ organ_name_map' =
                    Put(organ_name_map, symbol_str,
                        IF "organ_name" \in columns /\ ~isna(row.organ_name)
                        THEN Some(strip(pystr(row.organ_name)))
                        ELSE None)
               /\ exchange_symbol_map' =
                    IF /\ symbol_normalized \notin DOMAIN exchange_symbol_map
                       /\ {"exchange", "comGroupCode"} \cap columns # {}
                       /\ ~isna(row.exchange)
                       /\ exchange \in exchanges
                    THEN Put(exchange_symbol_map, symbol_normalized, exchange)
                    ELSE exchange_symbol_map
               /\ industry_symbol_map' =
                    IF /\ symbol_normalized \notin DOMAIN industry_symbol_map
                       /\ industry_col # None
                       /\ ~isna(row.industry)
                       /\ industry_str # <<>>
                       /\ industry_str # <<"n","a","n">>
                    THEN Put(industry_symbol_map, symbol_normalized, industry_str)
                    ELSE industry_symbol_map
               /\ ecosystem_symbol_map' =
                    Put(ecosystem_symbol_map, symbol_str,
                        IF ecosystem_col # None
                        THEN IF ~isna(row.ecosystem)
                             THEN Some(strip(pystr(row.ecosystem)))
                             ELSE None
                        ELSE IF DOMAIN family_mapping # {}
                                  /\ symbol_normalized \in DOMAIN family_mapping
                             THEN Some(family_mapping[symbol_normalized])
                             ELSE None)
  /\ UNCHANGED <<batch, listing_inputs, active_csv, step, industry_col, all_symbols,
                 api_call_count, time_bound, checks, active_symbols>>

\* lines 733-777: the table ends and the loop over the symbols begins
AllSymbolsEnd ==
  /\ step = "all_symbols"
  /\ step' = "for_symbol"
  /\ rows_read' = 0
  /\ UNCHANGED <<batch, listing_inputs, active_csv, exchange_symbol_map,
                 industry_symbol_map, ecosystem_symbol_map, organ_name_map, industry_col,
                 all_symbols, api_call_count, time_bound, checks, active_symbols>>

\* lines 752-756: the keys normalised, only those of three characters kept
normalized_exchange_map ==
  [k \in {upper(strip(key)) : key \in {x \in DOMAIN exchange_symbol_map :
                                        Len(upper(strip(x))) = 3}} |->
     exchange_symbol_map[CHOOSE key \in DOMAIN exchange_symbol_map :
                           upper(strip(key)) = k]]

\* what get_company_info can return: it never supplies an ecosystem
CompanyInfos ==
  {[exchange |-> x, industry |-> i, ecosystem |-> None] :
     x \in {None, Some(HOSE)}, i \in {None, Some(<<>>), Some(TXT_Bank)}}

\* result = {'exchange': None, 'industry': None, 'ecosystem': None}, line 145
NoCompanyInfo ==
  [exchange |-> None, industry |-> None, ecosystem |-> None]

\* a variant that leaves a value without the sentinel
or_unknown_as_is(v) ==
  v

\* lines 886-899: v or 'UNKNOWN'
or_unknown(v) ==
  IF Truthy(v) THEN v ELSE Some(UNKNOWN)

\* lines 831-839: the value of an earlier run is taken only when the listing gave
\* none and the earlier one is a real value
FromExisting(value, earlier) ==
  IF (~Truthy(value) \/ value = Some(UNKNOWN)) /\ Truthy(earlier) /\ earlier # Some(UNKNOWN)
  THEN earlier
  ELSE value

\* lines 782-842: stock_info before the Quote API is asked
StockInfoListed(symbol, exchange) ==
  LET symbol_normalized == upper(strip(symbol))
      industry == industry_symbol_map[symbol_normalized]
      listed ==
        [symbol     |-> symbol,
         exchange   |-> IF exchange # <<>> THEN Some(exchange) ELSE None,
         industry   |-> IF /\ symbol_normalized \in DOMAIN industry_symbol_map
                           /\ industry # <<>>
                           /\ strip(industry) # <<"n","a","n">>
                           /\ lower(strip(industry)) # <<"n","o","n","e">>
                           /\ Len(strip(industry)) > 0
                        THEN Some(strip(industry))
                        ELSE None,
         ecosystem  |-> IF DOMAIN family_mapping # {}
                             /\ symbol_normalized \in DOMAIN family_mapping
                        THEN Some(family_mapping[symbol_normalized])
                        ELSE IF symbol \in DOMAIN ecosystem_symbol_map
                                  /\ Truthy(ecosystem_symbol_map[symbol])
                             THEN ecosystem_symbol_map[symbol]
                             ELSE None,
         organ_name |-> IF symbol \in DOMAIN organ_name_map
                             /\ Truthy(organ_name_map[symbol])
                        THEN organ_name_map[symbol]
                        ELSE None]
  IN IF DOMAIN existing_data # {} /\ symbol \in DOMAIN existing_data
     THEN LET existing == existing_data[symbol]
          IN [symbol     |-> symbol,
              exchange   |-> FromExisting(listed.exchange, existing.exchange),
              industry   |-> FromExisting(listed.industry, existing.industry),
              ecosystem  |-> FromExisting(listed.ecosystem, existing.ecosystem),
              organ_name |-> IF ~Truthy(listed.organ_name) /\ Truthy(existing.organ_name)
                             THEN existing.organ_name
                             ELSE listed.organ_name]
     ELSE listed

\* lines 859-872: what get_company_info adds to the fields still without a value
WithCompanyInfo(stock_info, company_info) ==
  [stock_info EXCEPT
     !.exchange  = IF ~Truthy(@) /\ Truthy(company_info.exchange)
                   THEN company_info.exchange ELSE @,
     !.industry  = IF ~Truthy(@) /\ Truthy(company_info.industry)
                   THEN company_info.industry ELSE @,
     !.ecosystem = IF ~Truthy(@) /\ Truthy(company_info.ecosystem)
                   THEN company_info.ecosystem ELSE @]

\* lines 886-899: the sentinel for the fields without a value, organ_name excepted
WithUnknown(stock_info) ==
  [stock_info EXCEPT !.exchange  = or_unknown(@),
                     !.industry  = or_unknown(@),
                     !.ecosystem = or_unknown(@)]

\* save_incremental(output_file, all_symbols), lines 1160-1191
save_incremental(records) ==
  active_csv' = Some(records)

\* the keys of normalized_exchange_map the loop has not reached yet
Unprocessed ==
  {k \in DOMAIN normalized_exchange_map :
     \A i \in 1..Len(all_symbols) : all_symbols[i].symbol # k}

\* lines 779-918: one iteration of the loop over normalized_exchange_map.  The Quote
\* API is asked only while the record has no exchange (line 847), and only then
\* does `import time` of line 875 bind the function's local name time
ForSymbol ==
  /\ step = "for_symbol"
  /\ \E symbol \in Unprocessed :
       LET listed == StockInfoListed(symbol, normalized_exchange_map[symbol])
           ask == fetch_company_info /\ ~Truthy(listed.exchange)
           call == ask /\ api_call_count < 10
       IN \E company_info \in IF call THEN CompanyInfos ELSE {NoCompanyInfo} :
            /\ all_symbols' =
                 Append(all_symbols,
                        WithUnknown(IF call THEN WithCompanyInfo(listed, company_info)
                                    ELSE listed))
            /\ api_call_count' = IF ask /\ api_call_count <= 10
                                 THEN api_call_count + 1 ELSE api_call_count
            /\ time_bound' = (time_bound \/ call)
  /\ IF Len(all_symbols') % save_batch_size = 0
     THEN save_incremental(all_symbols')
     ELSE UNCHANGED active_csv
  /\ UNCHANGED <<batch, listing_inputs, step, rows_read, exchange_symbol_map,
                 industry_symbol_map, ecosystem_symbol_map, organ_name_map, industry_col,
                 checks, active_symbols>>

\* lines 920-937 and 979-981: the loop is over, the records are saved once more and,
\* without the trading check, returned
ForSymbolEnd ==
  /\ step = "for_symbol"
  /\ Unprocessed = {}
  /\ IF all_symbols # <<>>
     THEN save_incremental(all_symbols)
     ELSE UNCHANGED active_csv
  /\ IF check_trading
     THEN step' = "check_trading" /\ UNCHANGED active_symbols
     ELSE step' = "returned" /\ active_symbols' = Some(all_symbols)
  /\ UNCHANGED <<batch, listing_inputs, rows_read, exchange_symbol_map,
                 industry_symbol_map, ecosystem_symbol_map, organ_name_map, industry_col,
                 all_symbols, api_call_count, time_bound, checks>>

\* check_symbol_active(symbol, days_back=90)
days_back ==
  90

\* the index maximum of a table whose index holds no dates: str(last_date) does not
\* parse as %Y-%m-%d
NotADate ==
  -1

\* what quote.history() of check_symbol_active can do: raise, return None or an
\* empty table, or return rows whose index maximum prints as index_max and, when
\* that is a date, lies days_since_last days before now
QuoteAnswers ==
  {[kind |-> "raises", text |-> e, index_max |-> <<>>, days_since_last |-> NotADate] :
     e \in {TXT_rate_limit, TXT_connection}}
  \cup {[kind |-> "empty", text |-> <<>>, index_max |-> <<>>, days_since_last |-> NotADate]}
  \cup {[kind |-> "rows", text |-> <<>>, index_max |-> TXT_date, days_since_last |-> d] :
          d \in {1, days_back + 1}}
  \cup {[kind |-> "rows", text |-> <<>>, index_max |-> <<"5","9">>,
          days_since_last |-> NotADate]}

\* a variant of check_symbol_active that takes a symbol whose fetch failed or
\* brought no rows for one still trading
check_symbol_active_lenient(answer) ==
  IF answer.kind # "rows" THEN <<TRUE, None>>
  ELSE IF answer.days_since_last = NotADate THEN <<TRUE, Some(answer.index_max)>>
  ELSE <<answer.days_since_last <= days_back, Some(answer.index_max)>>

\* check_symbol_active, lines 293-344, after its one call of quote.history():
\* (is_active, last_trade_date)
check_symbol_active(answer) ==
  IF answer.kind # "rows" THEN <<FALSE, None>>
  ELSE IF answer.days_since_last = NotADate THEN <<TRUE, Some(answer.index_max)>>
  ELSE <<answer.days_since_last <= days_back, Some(answer.index_max)>>

\* the local list active_symbols of the trading check: the records of the symbols
\* found active so far, with their last_trade_date
ActiveList ==
  SelectSeq([i \in 1..Len(checks) |->
               IF checks[i].is_active
               THEN all_symbols[i] @@ [last_trade_date |-> checks[i].last_trade_date]
               ELSE None],
            LAMBDA r : r # None)

\* lines 957-978: one iteration of the trading check, or its end.  An iteration
\* calls check_symbol_active once, which calls quote.history() once, and then
\* time.sleep(0.1) (line 974); time is a local of the function (line 875), and
\* while it is unbound the call raises UnboundLocalError, which line 983 catches:
\* the function returns [].  After the last iteration the list is returned
CheckTrading ==
  /\ step = "check_trading"
  /\ IF Len(checks) < Len(all_symbols)
     THEN /\ \E answer \in QuoteAnswers :
               LET stock_info == all_symbols[Len(checks) + 1]
                   answered == check_symbol_active(answer)
               IN checks' = Append(checks, [symbol          |-> stock_info.symbol,
                                            quote_calls     |-> 1,
                                            answer          |-> answer,
                                            is_active       |-> answered[1],
                                            last_trade_date |-> answered[2]])
          /\ IF time_bound
             THEN UNCHANGED <<step, active_symbols>>
             ELSE step' = "returned" /\ active_symbols' = Some(<<>>)
     ELSE /\ step' = "returned"
          /\ active_symbols' = Some(ActiveList)
          /\ UNCHANGED checks
  /\ UNCHANGED <<batch, listing_inputs, active_csv, rows_read, exchange_symbol_map,
                 industry_symbol_map, ecosystem_symbol_map, organ_name_map, industry_col,
                 all_symbols, api_call_count, time_bound>>

\* download_active_stocks_csv, lines 1242-1269: nothing is written for an empty
\* result, otherwise the result replaces the CSV
SaveActiveSymbols ==
  /\ step = "returned"
  /\ step' = "done"
  /\ active_csv' = IF active_symbols[1] = <<>> THEN active_csv ELSE active_symbols
  /\ UNCHANGED <<batch, listing_inputs, rows_read, exchange_symbol_map,
                 industry_symbol_map, ecosystem_symbol_map, organ_name_map, industry_col,
                 all_symbols, api_call_count, time_bound, checks, active_symbols>>

NextActive ==
  \/ GetActiveSymbols
  \/ SymbolsByExchangeRow
  \/ SymbolsByExchangeEnd
  \/ SymbolsByIndustriesRow
  \/ AllSymbols
  \/ AllSymbolsRow
  \/ AllSymbolsEnd
  \/ ForSymbol
  \/ ForSymbolEnd
  \/ CheckTrading
  \/ SaveActiveSymbols

SpecActive ==
  InitActive /\ [][NextActive]_vars

(***************************************************************************)
(* Properties.                                                             *)
(***************************************************************************)
\* thread t returns from the except branch: its last attempt raised
ReturnsFromExcept(t) ==
  /\ pc[t] = "return"
  /\ result[t][1] # NoDataResult(task[t])
  /\ \A n \in RowChoices : result[t][1] # OkResult(task[t], n)

\* thread t returns after an attempt that caught a throttling error
Throttled(t) ==
  /\ ReturnsFromExcept(t)
  /\ Classified[exc[t][1]].rate_limit

\* the records of results that belong to symbol s
RecordsOf(s) ==
  SelectSeq(results, LAMBDA r : r[1] = s)

\* C1: under Spec, with one or several pool threads and in every interleaving, two
\* consecutive stamps of last_request_time inside the gate are at least
\* min_request_interval seconds apart.
C1_GateSpacing ==
  grant_gap # None => grant_gap[1] >= min_request_interval

\* two pool threads hold a grant at the same time, the second given after the first
C1_Witness ==
  /\ max_workers = 2
  /\ grant_gap # None
  /\ pc[1] = "fetch"
  /\ pc[2] = "fetch"

\* C2: one invocation of download_symbol_data calls quote.history() at most max_retries
\* times; an invocation returns after a throttled attempt only when that attempt was
\* number max_retries (every attempt before it was throttled too, any other answer
\* returns at once), and it then returns a failure.
C2_AttemptBound ==
  \A t \in Threads :
    /\ calls[t] <= max_retries
    /\ Throttled(t) =>
         /\ calls[t] = max_retries
         /\ nwaits[t] = max_retries - 1
         /\ ~result[t][1][2]

\* an invocation whose max_retries attempts were all throttled returns
C2_Witness ==
  \E t \in Threads : Throttled(t) /\ calls[t] = max_retries

\* C3: over one run of download_all_symbols no symbol is fetched more than max_retries
\* times, the except branch of the as_completed loop included.
C3_BatchAttemptBound ==
  \A s \in Symbols : fetches[s] <= max_retries

\* the run is over, a symbol was fetched max_retries times and the except branch of
\* the driver has added its record for that symbol
C3_Witness ==
  /\ pc[Driver] = "returned"
  /\ \E s \in Symbols : fetches[s] = max_retries /\ Len(RecordsOf(s)) = 2

\* C4 as stated: after an error whose text holds no throttling phrase the loop returns
\* a failure without a wait and without another attempt (a first attempt is the only
\* one), and the message returned is the error text.
C4_MessageIsErrorText ==
  \A t \in Threads :
    exc[t] # None /\ ~Classified[exc[t][1]].rate_limit =>
      /\ pc[t] = "return"
      /\ calls[t] = attempt[t] + 1
      /\ nwaits[t] = attempt[t]
      /\ result[t] = Some(<<task[t], FALSE, exc[t][1], 0>>)

\* C4, amended: after an error whose text holds no throttling phrase the loop returns a
\* failure without a wait and without another attempt (a first attempt is the only
\* one); the message returned is the error text when it has at most 100 characters,
\* and its first 100 characters followed by "..." when it is longer.
C4_MessageTruncated ==
  \A t \in Threads :
    exc[t] # None /\ ~Classified[exc[t][1]].rate_limit =>
      /\ pc[t] = "return"
      /\ calls[t] = attempt[t] + 1
      /\ nwaits[t] = attempt[t]
      /\ ~result[t][1][2]
      /\ result[t][1][4] = 0
      /\ Len(exc[t][1]) <= 100 => result[t][1][3] = exc[t][1]
      /\ Len(exc[t][1]) > 100 =>
           /\ Len(result[t][1][3]) = 103
           /\ SubSeq(result[t][1][3], 1, 100) = SubSeq(exc[t][1], 1, 100)
           /\ SubSeq(result[t][1][3], 101, 103) = <<".", ".", ".">>

\* a first attempt failed with a text of more than 100 characters and no throttling
\* phrase, and the loop returns
C4_Witness ==
  \E t \in Threads :
    /\ pc[t] = "return"
    /\ exc[t] = Some(TXT_connection)
    /\ calls[t] = 1

\* C5 as stated: when the first attempt raises "Vui lòng thử lại sau 10 giây" the loop
\* waits 15 seconds and attempts again.
C5_RetryLaterIsWaitedFor ==
  \A t \in Threads :
    exc[t] = Some(TXT_retry_later) /\ calls[t] = 1 =>
      /\ pc[t] # "return"
      /\ nwaits[t] = 1
      /\ wait_time[t] = Some(15)

\* C5, amended: "Vui lòng thử lại sau 10 giây" alone holds no throttling phrase, and the
\* loop returns a failure after that one attempt without a wait.  When the text also
\* holds a throttling phrase ("Bạn đã gửi quá nhiều request tới VCI. Vui lòng thử lại
\* sau 10 giây.") the first attempt is followed by one wait of 15 seconds, and when the
\* second attempt returns 100 rows the loop returns a success with row_count 100 after
\* exactly two attempts and that one wait.  The first record the driver appends for an
\* item is the tuple its loop returned.
C5_ScenarioWithPhrase ==
  /\ \A s \in yielded : RecordsOf(s) # <<>> /\ RecordsOf(s)[1] = future[s][1]
  /\ \A t \in Threads :
    /\ exc[t] = Some(TXT_retry_later) /\ attempt[t] = 0 =>
         /\ pc[t] = "return"
         /\ calls[t] = 1
         /\ nwaits[t] = 0
         /\ result[t] = Some(<<task[t], FALSE, TXT_retry_later, 0>>)
    /\ exc[t] = Some(TXT_too_many_vi) /\ calls[t] = 1 =>
         /\ pc[t] # "return"
         /\ nwaits[t] = 1
         /\ wait_time[t] = Some(15)
    /\ exc[t] = Some(TXT_too_many_vi) /\ calls[t] = 2 /\ pc[t] = "return"
         /\ result[t][1][2] =>
         /\ nwaits[t] = 1
         /\ wait_time[t] = Some(15)
         /\ result[t][1][4] = 100
         /\ parquet[task[t]] = 100

\* the first attempt raised the text with the throttling phrase, the second returned
\* 100 rows, and the loop returns
C5_Witness ==
  \E t \in Threads :
    /\ pc[t] = "return"
    /\ exc[t] = Some(TXT_too_many_vi)
    /\ calls[t] = 2
    /\ result[t][1][2]

\* "after 10 seconds" and "sau 10 giây"
HINT_after_10_seconds ==
  LIT_after \o <<" ", "1", "0", " ">> \o LIT_seconds
HINT_sau_10_giay ==
  LIT_sau \o <<" ", "1", "0", " ">> \o LIT_giay

\* the text says "after 10 seconds" or "sau 10 giây"
SaysTen(error_text) ==
  \/ Contains(error_text, HINT_after_10_seconds)
  \/ Contains(error_text, HINT_sau_10_giay)

\* C6 as stated: whenever the loop computes a wait for an error text that holds
\* "after 10 seconds" or "sau 10 giây", whatever else the text holds, the wait is 15.
C6_TenAlwaysGivesFifteen ==
  \A t \in Threads :
    exc[t] # None /\ wait_time[t] # None /\ SaysTen(exc[t][1]) =>
      wait_time[t] = Some(15)

\* C6, amended: the wait is computed for texts that hold a throttling phrase only, and
\* the hint is the number of the first pattern, in the order "sau N giây",
\* "after N seconds", "N giây", "N seconds", that matches anywhere in the text; the
\* wait is that number plus 5.  A throttling text whose only numbers are those of
\* "after 10 seconds" or "sau 10 giây" gives 15; "rate limit: 30 giây, or after 10
\* seconds; thử lại sau 7 giây" gives 12; without a throttling phrase no wait is
\* computed.
C6_FirstPatternPlusFive ==
  \A t \in Threads :
    /\ exc[t] = Some(TXT_after_10) => wait_time[t] = Some(15)
    /\ exc[t] = Some(TXT_too_many_vi) => wait_time[t] = Some(15)
    /\ exc[t] = Some(TXT_two_hints) => wait_time[t] = Some(12)
    /\ exc[t] = Some(TXT_bare_after_10) =>
         /\ pc[t] = "return"
         /\ nwaits[t] = attempt[t]
         /\ attempt[t] = 0 => wait_time[t] = None
    /\ /\ exc[t] # None
       /\ Classified[exc[t][1]].rate_limit
       /\ Classified[exc[t][1]].hint # None
       => wait_time[t] = Some(Classified[exc[t][1]].hint[1] + 5)

\* download_vn30_data sits in the countdown that follows a throttling text with two
\* stated numbers
C6_Witness ==
  /\ script = "download_vn30"
  /\ pc[Driver] = "countdown"
  /\ exc[Driver] = Some(TXT_two_hints)
  /\ wait_time[Driver] = Some(12)

\* C7: a text with a throttling phrase and no stated number gives, at zero-based
\* attempt i, a wait of 15 * 2^i seconds: 15, 30, 60, 120 for i = 0, 1, 2, 3.
C7_ExponentialWait ==
  \A t \in Threads :
    /\ pc[t] = "countdown"
    /\ Classified[exc[t][1]].rate_limit
    /\ Classified[exc[t][1]].hint = None
    => /\ attempt[t] \in 0..3
       /\ wait_time[t] = Some(<<15, 30, 60, 120>>[attempt[t] + 1])

\* the fourth attempt (i = 3) was answered "Rate limit exceeded" and the thread waits
C7_Witness ==
  \E t \in Threads :
    /\ pc[t] = "countdown"
    /\ exc[t] = Some(TXT_rate_limit)
    /\ attempt[t] = 3
    /\ wait_time[t] = Some(120)

\* C8 as stated: when the manifest is written, results holds exactly one record for
\* each symbol of symbols_to_download.
C8_OneRecordPerItem ==
  pc[Driver] = "returned" /\ manifest_csv # None =>
    /\ Len(manifest_csv[1]) = Len(symbols_to_download)
    /\ \A i \in 1..Len(symbols_to_download) :
         Len(RecordsOf(symbols_to_download[i])) = 1

\* the manifest is written and a symbol has two records: the tuple its loop returned
\* and the failure the except branch of the as_completed loop added
C8_Witness ==
  /\ pc[Driver] = "returned"
  /\ \E s \in Symbols :
       /\ future[s] # None
       /\ RecordsOf(s) = <<future[s][1], <<s, FALSE, MSG_unbound, 0>>>>

\* C9 as stated: failed.csv lists exactly the symbols whose loop returned a failure.
C9_FailedListIsFailures ==
  pc[Driver] = "returned" /\ manifest_csv # None =>
    LET listed == IF failed_csv = None THEN {}
                  ELSE {failed_csv[1][i] : i \in 1..Len(failed_csv[1])}
    IN  listed = {s \in Symbols : future[s] # None /\ ~future[s][1][2]}

\* failed.csv is written and lists a symbol whose loop returned a success
C9_Witness ==
  /\ pc[Driver] = "returned"
  /\ failed_csv # None
  /\ \E i \in 1..Len(failed_csv[1]) : future[failed_csv[1][i]][1][2]

\* C10 as stated: after a run that worked through every listed symbol, a second run
\* against the same directory fetches nothing, whatever the outcomes of the first run
\* were.
C10_SecondRunFetchesNothing ==
  run >= 2 /\ prev_tried = Symbols => \A s \in Symbols : fetches[s] = 0

\* C10, amended: a later run skips exactly the symbols an earlier run recorded as a
\* success, the ones that have their file; it fetches the listed symbols that have
\* none (failed, without data, or never tried) again, and fetches nothing only when
\* every listed symbol succeeded before.
C10_ResumeSkipsSuccesses ==
  run >= 2 =>
    /\ \A s \in prev_success : fetches[s] = 0
    /\ \A i \in 1..Len(symbols_to_download) : symbols_to_download[i] \notin prev_success
    /\ symbols_to_download # <<>> =>
         {symbols_to_download[i] : i \in 1..Len(symbols_to_download)}
           = Symbols \ prev_success

\* in the second run one symbol is skipped, its file written by the first run, and
\* the other, which failed in the first run, is fetched again
C10_Witness ==
  /\ run = 2
  /\ prev_tried = Symbols
  /\ prev_success # {}
  /\ \E s \in Symbols \ prev_success : fetches[s] > 0

\* the symbols whose file was in the output directory when this run started: they have
\* a file and this run has not fetched them
HadFile(s) ==
  parquet[s] > 0 /\ fetches[s] = 0

\* C11: a symbol whose <symbol>.parquet is in the output directory when a run starts
\* is not submitted in that run, is not fetched and keeps its file as it is; the
\* symbols the run submits are the listed ones that have no file.
C11_ExistingArtifactSkipped ==
  [][run' = run =>
       /\ \A s \in Symbols :
            HadFile(s) =>
              /\ fetches'[s] = 0
              /\ parquet'[s] = parquet[s]
              /\ \A i \in 1..Len(queue') : queue'[i] # s
              /\ \A t \in Threads : task'[t] # s
       /\ (symbols_to_download' # symbols_to_download) =>
            ({symbols_to_download'[i] : i \in 1..Len(symbols_to_download')}
               = {s \in Symbols : parquet[s] = 0})
    ]_vars

\* the second run is over: it fetched one symbol and left alone the other, whose
\* file the first run had written
C11_Witness ==
  /\ run = 2
  /\ pc[Driver] = "returned"
  /\ manifest_csv # None
  /\ \E s \in Symbols : HadFile(s)
  /\ \E s \in Symbols : fetches[s] > 0

\* C12 as stated: a script the operator interrupts exits with a nonzero code.
C12_InterruptExitsNonzero ==
  pc[Driver] = "interrupted" => exit_code # None /\ exit_code[1] # 0

\* download_vn_stocks.py was interrupted after a file had been written and before
\* the manifest: the process has exited with code 0
C12_Witness ==
  /\ script = "download_vn_stocks"
  /\ pc[Driver] = "interrupted"
  /\ exit_code = Some(0)
  /\ manifest_csv = None
  /\ \E s \in Symbols : parquet[s] > 0

\* C13 as stated: a script that runs to its end exits with code 0, whatever the
\* outcomes of its items.
C13_CompletionExitsZero ==
  pc[Driver] = "returned" => exit_code = Some(0)

\* C13, amended: download_vn_stocks.py exits with code 0 when its run completes,
\* whatever the outcomes of its items; download_vn30.py exits with code 0 when its
\* download succeeded or was skipped, and with code 1 when download_vn30_data
\* returned a failure.  (A script the operator interrupts exits with code 0.)
C13_ExitCodeByScript ==
  [][exit_code = None /\ exit_code' # None =>
       exit_code' = Some(IF /\ script = "download_vn30"
                            /\ pc[Driver] = "return"
                            /\ ~result[Driver][1][2]
                         THEN 1 ELSE 0)
    ]_vars

\* download_vn_stocks.py has completed with exit code 0 and the Retry Loop of every
\* symbol returned a failure
C13_Witness ==
  /\ script = "download_vn_stocks"
  /\ pc[Driver] = "returned"
  /\ exit_code = Some(0)
  /\ \A s \in Symbols : future[s] # None /\ ~future[s][1][2]

\* symbol s has been submitted to the pool in this run
Submitted(s) ==
  \E i \in 1..Len(symbols_to_download) : symbols_to_download[i] = s

\* C14: when every fetch and every sleep returns, every submitted symbol comes to a
\* returned outcome that the driver records, whatever the outcomes of the other
\* symbols, and a run that submitted symbols writes the manifest and returns.
C14_EveryItemRecorded ==
  /\ \A s \in Symbols :
       Submitted(s) ~> (future[s] # None /\ s \in yielded /\ RecordsOf(s) # <<>>)
  /\ (symbols_to_download # <<>>) ~> (pc[Driver] = "returned" /\ manifest_csv # None)

\* the run is over and the manifest written; the loop of the first symbol handled
\* returned a failure and the loop of a symbol handled after it a success
C14_Witness ==
  /\ pc[Driver] = "returned"
  /\ manifest_csv # None
  /\ Len(results) = 4
  /\ ~results[1][2]
  /\ results[3][2]

\* thread t is inside the retry loop and has not reached a return statement
InLoop(t) ==
  pc[t] \in {"gate", "gate_sleep", "fetch", "countdown"}

\* C15: a file <symbol>.parquet is written only by the attempt whose fetch returned a
\* table with rows, in the step that returns the success; while an invocation is
\* attempting or waiting, and when it returns a failure, its symbol has no file.
C15_ArtifactOnlyOnSuccess ==
  /\ [](\A t \in Threads :
          /\ InLoop(t) => parquet[task[t]] = 0
          /\ pc[t] = "return" /\ ~result[t][1][2] => parquet[task[t]] = 0
          /\ pc[t] = "return" /\ result[t][1][2] => parquet[task[t]] = result[t][1][4])
  /\ [][\A s \in Stems :
          parquet'[s] # parquet[s] =>
            /\ parquet'[s] > 0
            /\ \E t \in Threads :
                 /\ pc[t] = "fetch"
                 /\ task[t] = s
                 /\ pc'[t] = "return"
                 /\ result'[t] = Some(OkResult(s, parquet'[s]))
      ]_vars

\* an invocation returns a failure after max_retries throttled attempts, its symbol
\* without a file, while the other symbol has got its file
C15_Witness ==
  \E t \in Workers :
    /\ pc[t] = "return"
    /\ ~result[t][1][2]
    /\ calls[t] = max_retries
    /\ parquet[task[t]] = 0
    /\ \E s \in Symbols : parquet[s] > 0

\* C16: when quote.history() returns None or an empty table the loop returns
\* (symbol, False, "Không có dữ liệu", 0) at once: no wait is added and no attempt
\* follows, on the first attempt and on one that follows throttled attempts alike.
C16_NoDataReturnsAtOnce ==
  \A t \in Threads :
    df[t] = Some(0) =>
      /\ pc[t] = "return"
      /\ result[t] = Some(<<task[t], FALSE, MSG_no_data, 0>>)
      /\ calls[t] = attempt[t] + 1
      /\ nwaits[t] = attempt[t]
      /\ timer[t] = 0

\* the third attempt, after two throttled ones, got an empty table and the loop returns
C16_Witness ==
  \E t \in Threads :
    /\ df[t] = Some(0)
    /\ pc[t] = "return"
    /\ attempt[t] = 2
    /\ exc[t] # None

\* the manifest rows of this run's results
ManifestOfRun ==
  [i \in 1..Len(results) |-> ManifestRow(results[i])]

\* C17 as stated: when a run that follows a run over every listed symbol has ended,
\* manifest.csv and failed.csv are the ones the later run wrote: they hold its records
\* and its failed symbols.
C17_FilesDescribeTheRun ==
  pc[Driver] = "returned" /\ run >= 2 /\ prev_tried = Symbols =>
    /\ manifest_csv = Some(ManifestOfRun)
    /\ failed_csv = Some(failed_symbols)

\* C17, amended: a run that submitted symbols writes manifest.csv once, at its end,
\* from its results, and writes failed.csv then if one of its records is a failure;
\* a run that returns early (the listing failed, or every listed symbol has its
\* file) writes neither file, and the files of an earlier run stay as they were.
C17_FilesWrittenAtEndOfWork ==
  [][
      /\ (manifest_csv' # manifest_csv \/ failed_csv' # failed_csv) =>
            /\ pc[Driver] = "as_completed"
            /\ pc'[Driver] = "returned"
            /\ symbols_to_download # <<>>
      /\ (pc[Driver] # "returned" /\ pc'[Driver] = "returned") =>
            IF symbols_to_download # <<>>
            THEN /\ manifest_csv' = Some(ManifestOfRun)
                 /\ failed_csv' = IF failed_symbols # <<>> THEN Some(failed_symbols)
                                  ELSE failed_csv
            ELSE /\ manifest_csv' = manifest_csv
                 /\ failed_csv' = failed_csv
    ]_vars

\* the second run found every file in place and returned early: manifest.csv and
\* failed.csv are still those of the first run
C17_Witness ==
  /\ run = 2
  /\ pc[Driver] = "returned"
  /\ symbols_to_download = <<>>
  /\ prev_success = Symbols
  /\ manifest_csv # None
  /\ failed_csv # None

\* C18 as stated: after a completed item the driver sleeps, before it handles the
\* next one, for what is left of `sleep` seconds since the last request (nothing when
\* they have passed) plus a jitter.
C18_InterItemSleepHappens ==
  [][(pc[Driver] = "inter_item" /\ pc'[Driver] # "inter_item") =>
       /\ pc'[Driver] = "inter_item_sleep"
       /\ \E j \in Jitter :
            timer'[Driver] = (IF elapsed < sleep THEN sleep - elapsed ELSE 0) + j
    ]_vars

\* the driver is back at as_completed after its first item without having slept:
\* the item has its two records and the local last_request_time was never bound
C18_Witness ==
  /\ pc[Driver] = "as_completed"
  /\ Len(results) = 2
  /\ results[2] = <<results[1][1], FALSE, MSG_unbound, 0>>
  /\ local_last_request_time = None
  /\ timer[Driver] = 0

\* the records get_active_symbols has built, returned or written to the CSV
Emitted ==
  {all_symbols[i] : i \in 1..Len(all_symbols)}
    \cup (IF active_symbols = None THEN {}
          ELSE {active_symbols[1][i] : i \in 1..Len(active_symbols[1])})
    \cup (IF active_csv = None THEN {}
          ELSE {active_csv[1][i] : i \in 1..Len(active_csv[1])})

\* neither listing table nor the CSV of an earlier run has an industry for the symbol
NoIndustrySource(symbol) ==
  /\ symbol \notin DOMAIN industry_symbol_map
  /\ symbol \in DOMAIN existing_data => existing_data[symbol].industry = Some(UNKNOWN)
  /\ api_call_count = 0

\* neither the family file, the listing nor the CSV of an earlier run has an
\* ecosystem for the symbol, however the listing spells the symbol
NoEcosystemSource(symbol) ==
  /\ symbol \notin DOMAIN family_mapping
  /\ \A k \in DOMAIN ecosystem_symbol_map :
       upper(strip(k)) = symbol => ~Truthy(ecosystem_symbol_map[k])
  /\ symbol \in DOMAIN existing_data => existing_data[symbol].ecosystem = Some(UNKNOWN)
  /\ api_call_count = 0

\* C19: in every record of get_active_symbols the fields exchange, industry and
\* ecosystem are neither None nor the empty text, and industry and ecosystem hold
\* 'UNKNOWN' when no source has a value for the symbol (a symbol without an exchange
\* has no record at all)
C19_FieldsNeverEmpty ==
  \A r \in Emitted :
    /\ Truthy(r.exchange)
    /\ Truthy(r.industry)
    /\ Truthy(r.ecosystem)
    /\ NoIndustrySource(r.symbol) => r.industry = Some(UNKNOWN)
    /\ NoEcosystemSource(r.symbol) => r.ecosystem = Some(UNKNOWN)

\* the function has returned a record whose industry no source had, with the
\* sentinel in it, next to an exchange and an ecosystem that were supplied
C19_Witness ==
  /\ step = "returned"
  /\ active_symbols # None
  /\ \E i \in 1..Len(active_symbols[1]) :
       LET r == active_symbols[1][i]
       IN /\ NoIndustrySource(r.symbol)
          /\ r.industry = Some(UNKNOWN)
          /\ r.exchange = Some(HOSE)
          /\ r.ecosystem \notin {None, Some(UNKNOWN)}

\* C20: the shared last_request_time is read and written only by a thread that holds
\* rate_limit_lock: a thread passes the check of the gate or stamps after its wait
\* only when it can take the lock, a thread sleeping in the gate holds the lock until
\* it has stamped, so at most one thread is between the check and the update, and no
\* other step sets the timestamp
C20_AccessUnderLock ==
  [][
      /\ \A t \in Threads :
           /\ (pc[t] = "gate" /\ pc'[t] # "gate") => rate_limit_lock = Free
           /\ (pc[t] = "countdown" /\ pc'[t] # "countdown") => rate_limit_lock = Free
           /\ pc'[t] = "gate_sleep" => rate_limit_lock' = t
           /\ (pc[t] = "gate_sleep" /\ pc'[t] # "gate_sleep") =>
                rate_limit_lock = t /\ rate_limit_lock' = Free /\ elapsed' = 0
      /\ \A t, u \in Threads :
           (pc'[t] = "gate_sleep" /\ pc'[u] = "gate_sleep") => t = u
      /\ elapsed' < elapsed =>
           \E t \in Threads : pc[t] \in {"gate", "gate_sleep", "countdown"} /\ pc'[t] # pc[t]
  ]_vars

\* one pool thread sleeps in the gate holding the lock while the other stands at
\* the gate and cannot enter
C20_Witness ==
  /\ max_workers = 2
  /\ \E t, u \in Workers :
       /\ t # u
       /\ pc[t] = "gate_sleep"
       /\ timer[t] > 0
       /\ rate_limit_lock = t
       /\ pc[u] = "gate"
       /\ ~ENABLED Gate(u)

\* thread t returns from the last allowed attempt, which caught a throttling error
Exhausted(t) ==
  /\ Throttled(t)
  /\ attempt[t] = max_retries - 1

\* the text "<max_retries>x)" both exhaustion messages carry
NotesExhaustion(message) ==
  /\ Contains(message, <<"R","a","t","e"," ","l","i","m","i","t"," ","(">>)
  /\ Contains(message, str(max_retries) \o <<"x",")">>)

\* C21 as stated: the failure returned after the last throttled attempt notes the
\* exhaustion and holds the last computed wait, from a hint or from the backoff
C21_MessageHoldsTheWait ==
  \A t \in Threads :
    Exhausted(t) =>
      /\ ~result[t][1][2]
      /\ NotesExhaustion(result[t][1][3])
      /\ Contains(result[t][1][3], str(wait_time[t][1]))

\* C21, amended: the failure returned after the last throttled attempt notes the
\* exhaustion in both cases; with a numeric hint N the message ends with the wait
\* "chờ <N+5>s", and without one it holds the first 80 characters of the error text
\* and not the backoff wait (2 ** attempt) * 15 that was computed
C21_WaitOnlyWithHint ==
  \A t \in Threads :
    Exhausted(t) =>
      LET e == exc[t][1]
          message == result[t][1][3]
      IN /\ result[t][1] = <<task[t], FALSE, message, 0>>
         /\ NotesExhaustion(message)
         /\ calls[t] = max_retries
         /\ nwaits[t] = max_retries - 1
         /\ IF Classified[e].hint # None
            THEN /\ wait_time[t] = Some(Classified[e].hint[1] + 5)
                 /\ message = MSG_hint_a \o str(max_retries) \o MSG_hint_b
                                \o str(wait_time[t][1]) \o MSG_hint_c
            ELSE /\ wait_time[t] = Some(Pow2(attempt[t]) * 15)
                 /\ message = MSG_exp_a \o str(max_retries) \o MSG_exp_b \o Prefix(e, 80)
                 /\ ~Contains(message, str(wait_time[t][1]))

\* a thread returns from its last attempt after a throttling text without a hint,
\* the backoff of that attempt being 240 seconds
C21_Witness ==
  \E t \in Threads :
    /\ Exhausted(t)
    /\ Classified[exc[t][1]].hint = None
    /\ wait_time[t] = Some(240)

(***************************************************************************)
(* C22: the except branch of the as_completed loop.                        *)
(***************************************************************************)
\* the step in which handling the item in hand raises an exception with text e.
\* future.result() hands over what download_symbol_data returned, which catches
\* every Exception itself, so the one statement of the try block that raises is the
\* read of the unbound local last_request_time before the inter-item sleep
DriverRaises(e) ==
  /\ pc[Driver] = "inter_item"
  /\ rate_limit_lock = Free
  /\ local_last_request_time = None
  /\ e = MSG_unbound
  /\ pc'[Driver] # "inter_item"

\* the driver is on the call of download_symbol_data it makes after its own wait
InSecondChance ==
  /\ script = "download_vn_stocks"
  /\ pc[Driver] \in {"gate", "gate_sleep", "fetch", "countdown", "return"}

SecondChanceNeverEntered ==
  pc[Driver] # "countdown_driver"

(***************************************************************************)
(* C23: who writes results and the counters.                               *)
(***************************************************************************)
\* what a pool thread running download_symbol_data has of its own
WorkerState(w) ==
  <<pc[w], task[w], attempt[w], timer[w], nwaits[w], wait_time[w], calls[w], exc[w],
    df[w], result[w]>>

\* C23: every step that changes results, success_count, fail_count or total_rows is
\* a step of the driver inside download_all_symbols: no pool thread moves in it,
\* and a pool thread hands its record over through its future only; results grows
\* by one record at a time
C23_OnlyDriverMutates ==
  [][(counters' # counters) =>
       /\ \A w \in Workers : WorkerState(w)' = WorkerState(w)
       /\ future' = future
       /\ pc[Driver] \in {"as_completed", "inter_item", "return"}
       /\ pc'[Driver] \in {"as_completed", "inter_item", "countdown_driver"}
       /\ Len(results') \in {Len(results), Len(results) + 1}
       /\ \A i \in 1..Len(results) : results'[i] = results[i]
    ]_vars

\* with two pool threads, the driver has appended a record while one pool thread
\* is still downloading and the other has handed its result over
C23_Witness ==
  /\ max_workers = 2
  /\ Len(results) >= 1
  /\ \E w \in Workers : pc[w] \in {"gate", "gate_sleep", "fetch", "countdown", "return"}
  /\ \E s \in Symbols : future[s] # None /\ results[1] = future[s][1]

(***************************************************************************)
(* C24: the backoff wait of one pool thread and the fetches of the others. *)
(***************************************************************************)
\* thread t is inside wait_with_countdown of download_symbol_data, seconds remaining
InBackoffWait(t) ==
  /\ pc[t] = "countdown"
  /\ timer[t] > 0

\* thread t leaves the Rate Gate in this step, stamped, and goes on to Quote(...)
\* and quote.history()
LeavesGate(t) ==
  /\ pc[t] \in {"gate", "gate_sleep"}
  /\ pc'[t] = "fetch"

\* C24 as stated: while one pool thread is in its backoff wait after a throttling
\* error, no other pool thread is let through the gate to its remote fetch
C24_PauseAppliesToAll ==
  [][\A w, v \in Workers :
       (w # v /\ InBackoffWait(w)) => ~LeavesGate(v)
    ]_vars

\* one pool thread is in its backoff wait, rate_limit_lock is free, and the other
\* pool thread has passed the gate and is on its call of quote.history()
C24_Witness ==
  \E w, v \in Workers :
    /\ w # v
    /\ InBackoffWait(w)
    /\ Classified[exc[w][1]].rate_limit
    /\ rate_limit_lock = Free
    /\ pc[v] = "fetch"
    /\ since_grant = Some(0)

(***************************************************************************)
(* C25: the CSV of download_active_stocks_csv after the trading check.     *)
(***************************************************************************)
\* the symbols the output CSV lists
CsvSymbols ==
  IF active_csv = None THEN {}
  ELSE {active_csv[1][i].symbol : i \in 1..Len(active_csv[1])}

\* the symbols check_symbol_active has answered (True, ...) or (False, ...) for
JudgedActive ==
  {checks[i].symbol : i \in {j \in 1..Len(checks) : checks[j].is_active}}
JudgedInactive ==
  {checks[i].symbol : i \in {j \in 1..Len(checks) : ~checks[j].is_active}}

\* C25 as stated: with the trading check enabled, when download_active_stocks_csv
\* has returned the CSV lists exactly the symbols judged active, and none judged
\* inactive, also when none at all was judged active
C25_CsvListsTheActive ==
  (step = "done" /\ check_trading) =>
    /\ CsvSymbols = JudgedActive
    /\ CsvSymbols \cap JudgedInactive = {}

\* download_active_stocks_csv has returned from a run with the trading check over
\* two or more listed symbols: the first was judged inactive, time.sleep(0.1) raised
\* before the second was checked, get_active_symbols returned [], and the CSV still
\* holds what save_incremental wrote, every listed symbol
C25_Witness ==
  /\ step = "done"
  /\ check_trading
  /\ Len(all_symbols) >= 2
  /\ Len(checks) = 1
  /\ ~checks[1].is_active
  /\ active_symbols = Some(<<>>)
  /\ active_csv = Some(all_symbols)
  /\ checks[1].symbol \in CsvSymbols

(***************************************************************************)
(* C26: check_symbol_active, one fetch and no retry.                       *)
(***************************************************************************)
\* the symbols of a list of records
SymbolsOf(records) ==
  {records[i].symbol : i \in 1..Len(records)}

C27_WaitsAreAttemptsMinusOne ==
  \A t \in Threads :
    /\ calls[t] <= max_retries
    /\ nwaits[t] <= max_retries - 1
    /\ pc[t] = "countdown" =>
         /\ nwaits[t] = calls[t]
         /\ calls[t] = attempt[t] + 1
         /\ calls[t] < max_retries
    /\ pc[t] = "return" =>
         /\ nwaits[t] = calls[t] - 1
         /\ calls[t] = attempt[t] + 1
         /\ result[t][1] # FellThroughResult(task[t])
         /\ Exhausted(t) => calls[t] = max_retries /\ nwaits[t] = max_retries - 1

\* a thread returns after max_retries attempts that were all answered with a
\* throttling text stating a wait: it has waited max_retries - 1 times
C27_Witness ==
  \E t \in Threads :
    /\ pc[t] = "return"
    /\ Exhausted(t)
    /\ Classified[exc[t][1]].hint # None
    /\ calls[t] = max_retries
    /\ nwaits[t] = max_retries - 1

(***************************************************************************)
(* C28: the rows of manifest.csv.                                          *)
(***************************************************************************)
\* the rows of manifest.csv, none while the file does not exist
ManifestRows ==
  IF manifest_csv = None THEN {}
  ELSE {manifest_csv[1][i] : i \in 1..Len(manifest_csv[1])}

\* C28: a record returned by the retry loop is a success with at least one row and
\* the file of its symbol on disk, or a failure with row count 0; and every row of
\* manifest.csv with status SUCCESS has row_count >= 1 and file = <symbol>.parquet,
\* a file that exists, and every row with status FAILED has row_count 0 and no file
C28_ManifestWellFormed ==
  /\ \A t \in Threads :
       pc[t] = "return" =>
         LET r == result[t][1]
         IN /\ r[1] = task[t]
            /\ IF r[2] THEN r[4] >= 1 /\ parquet[r[1]] = r[4] ELSE r[4] = 0
  /\ \A row \in ManifestRows :
       /\ row.status \in {"SUCCESS", "FAILED"}
       /\ row.status = "SUCCESS" =>
            /\ row.row_count >= 1
            /\ row.file = Some(row.symbol)
            /\ parquet[row.symbol] >= 1
       /\ row.status = "FAILED" =>
            /\ row.row_count = 0
            /\ row.file = None

\* manifest.csv has been written with a SUCCESS row and with a FAILED row that the
\* retry loop returned for a symbol without data
C28_Witness ==
  /\ \E row \in ManifestRows : row.status = "SUCCESS" /\ row.row_count \in RowChoices
  /\ \E row \in ManifestRows :
       row = ManifestRow(NoDataResult(row.symbol)) /\ parquet[row.symbol] = 0

(***************************************************************************)
(* C29: the counters of the summary.                                       *)
(***************************************************************************)
\* the work items whose call of download_symbol_data returned success, or failure
Succeeded ==
  {s \in Symbols : future[s] # None /\ future[s][1][2]}
Failed ==
  {s \in Symbols : future[s] # None /\ ~future[s][1][2]}

\* C29 as stated: when download_all_symbols reaches its summary, success_count and
\* fail_count add up to the number of work items, success_count being the number
\* of items that succeeded and fail_count the number that failed
C29_CountersAddUp ==
  (pc[Driver] = "returned" /\ manifest_csv # None) =>
    /\ success_count + fail_count = Len(symbols_to_download)
    /\ success_count = Cardinality(Succeeded)
    /\ fail_count = Cardinality(Failed)

\* the summary is reached after a run in which every work item succeeded, and
\* fail_count is the number of work items
C29_Witness ==
  /\ pc[Driver] = "returned"
  /\ manifest_csv # None
  /\ Len(symbols_to_download) = NumSymbols
  /\ Cardinality(Succeeded) = NumSymbols
  /\ success_count = NumSymbols
  /\ fail_count = NumSymbols

(***************************************************************************)
(* C30: the manifest of a resumed run.                                     *)
(***************************************************************************)
\* the symbols that have a row in the manifest file m
ManifestSymbols(m) ==
  IF m = None THEN {} ELSE {m[1][i].symbol : i \in 1..Len(m[1])}

\* C30: whenever a run writes manifest.csv, the rows are for the symbols of
\* symbols_to_download and no others: a symbol left out because an earlier run had
\* written its file has no row, so after a resumed run a file in the output
\* directory is missing from the manifest
C30_ManifestOfThisRunOnly ==
  [][manifest_csv' # manifest_csv =>
       /\ ManifestSymbols(manifest_csv') =
            {symbols_to_download[i] : i \in 1..Len(symbols_to_download)}
       /\ ManifestSymbols(manifest_csv') \cap prev_success = {}
       /\ \A s \in prev_success : parquet'[s] > 0
       /\ \A s \in ManifestSymbols(manifest_csv') : fetches[s] > 0
    ]_vars

\* the second run has ended and has written a manifest with a row for the symbol
\* it fetched and none for the symbol whose file the first run had written
C30_Witness ==
  /\ run = 2
  /\ pc[Driver] = "returned"
  /\ \E s \in prev_success : parquet[s] > 0 /\ s \notin ManifestSymbols(manifest_csv)
  /\ \E s \in ManifestSymbols(manifest_csv) : fetches[s] > 0 /\ s \notin prev_success
====
